---- MODULE Spec2Model ----
(***************************************************************************)
(* RING0 terminal session engine: the display buffer (crate `screen`) and  *)
(* the byte decoder (crate `vt`).                                          *)
(*                                                                         *)
(* Characters are Unicode scalar values (a Rust `char`), bytes are 0..255. *)
(* Vec indices in the source are 0-based; sequences here are 1-based, so   *)
(* element i of a Vec is element i+1 of the sequence (operator At).        *)
(***************************************************************************)
EXTENDS Integers, Sequences, FiniteSets

VARIABLES
    screen,     \* the Screen struct: size, cursor, cells, scrollback, scroll_offset
    last,       \* history: the last operation applied to the Screen
    scrolls,    \* history: scroll events (scroll_up calls) since Screen::new
    burst,      \* history: scroll events that were produced by the output burst
    panicked,   \* the thread has panicked (arithmetic overflow in a checked build)
    vt_input,   \* decoder: bytes of the stream not yet passed to VtParser::advance
    events,     \* decoder: the caller's Vec<VtEvent> that advance appends to
    vt_whole,   \* history: the whole byte stream
    vt_prefix,  \* history: the contents of `events` before the first advance
    vt_calls,   \* history: number of advance calls made so far
    os,         \* the OS side of a session: calls made, handles open and closed
    pty,        \* the Pty value (the session) and the last operation on it
    app,        \* the AppState struct of the interactive loop
    chan,       \* the mpsc channel of PtyMessage and the reader thread feeding it
    hist        \* history: what the reader read and the loop drained

vars == <<screen, scrolls, burst, panicked,
          vt_input, events, vt_whole, vt_prefix, vt_calls,
          os, pty, app, chan, hist, last>>

screenVars == <<screen, last, scrolls, burst, panicked>>
vtVars == <<vt_input, events, vt_whole, vt_prefix, vt_calls>>
ptyVars == <<os, pty>>
appVars == <<app, chan, hist>>

----------------------------------------------------------------------------
(* Bounds of the exploration *)

MaxScrolls == 2     \* scroll events explored before, and again after, the burst
MaxView == 2        \* scroll_view is explored within this distance of either end
MaxLen == 3         \* longest sampled byte stream given to the decoder
MaxResizes == 2     \* Pty::resize calls made on one session
MaxAppResizes == 1  \* Pty::resize calls the loop makes in one run
MaxInput == 5       \* longest tracked input line
MaxDownloads == 2   \* font downloads begun in one run

----------------------------------------------------------------------------
(* Program constants and machine arithmetic *)

\* variant: the cap test off by one, so that one row too many is retained
MAX_SCROLLBACK_LINES_off_by_one == 1000 + 1

MAX_SCROLLBACK_LINES == 1000
SPACE == 32                       \* ' ', Cell::default().ch
U16_MAX == 65535
I32_MAX == 2147483647
I32_MIN == -I32_MAX - 1

Min(a, b) == IF a < b THEN a ELSE b
Max(a, b) == IF a > b THEN a ELSE b

\* u16::saturating_add / u16::saturating_sub / usize::saturating_sub
saturating_add(a, b) == Min(a + b, U16_MAX)
saturating_sub(a, b) == Max(a - b, 0)

\* i32 addition: whether `a + b` leaves the i32 range, and the two's-complement
\* result it wraps to when overflow checks are off
overflows_i32(a, b) ==
    \/ (b > 0 /\ a > I32_MAX - b)
    \/ (b < 0 /\ a < I32_MIN - b)

wrapping_add_i32(a, b) ==
    IF b > 0 /\ a > I32_MAX - b THEN (a - I32_MAX - 1) + (b - I32_MAX - 1)
    ELSE IF b < 0 /\ a < I32_MIN - b THEN (a + I32_MAX + 1) + (b + I32_MAX + 1)
    ELSE a + b

\* Ord::clamp
clamp(x, lo, hi) == IF x < lo THEN lo ELSE IF x > hi THEN hi ELSE x

\* element i (0-based) of a Vec
At(v, i) == v[i + 1]

\* vec![Cell::default(); n]
blank(n) == [i \in 1..n |-> SPACE]

----------------------------------------------------------------------------
(* crate vt *)

\* enum VtEvent
VtPrint(ch) == <<"Print", ch>>
VtNewline == <<"Newline">>
VtCarriageReturn == <<"CarriageReturn">>
VtBackspace == <<"Backspace">>

\* variant: the printable range taken one byte too far (DEL printed)
advance_byte_del(byte) ==
    IF byte = 10 THEN <<VtNewline>>
    ELSE IF byte = 13 THEN <<VtCarriageReturn>>
    ELSE IF byte = 8 THEN <<VtBackspace>>
    ELSE IF byte >= 32 /\ byte <= 127 THEN <<VtPrint(byte)>>
    ELSE <<>>

\* the match of VtParser::advance for one byte: the events it pushes
advance_byte(byte) ==
    IF byte = 10 THEN <<VtNewline>>
    ELSE IF byte = 13 THEN <<VtCarriageReturn>>
    ELSE IF byte = 8 THEN <<VtBackspace>>
    ELSE IF byte >= 32 /\ byte <= 126 THEN <<VtPrint(byte)>>
    ELSE <<>>

\* variant: a line feed that directly follows a carriage return in the same
\* call is folded into it, which makes the result depend on the chunking
RECURSIVE advance_crlf(_, _, _)
advance_crlf(input, evs, after_cr) ==
    IF input = <<>> THEN evs
    ELSE IF after_cr /\ Head(input) = 10 THEN advance_crlf(Tail(input), evs, FALSE)
    ELSE advance_crlf(Tail(input), evs \o advance_byte(Head(input)), Head(input) = 13)

advance_folding(input, evs) == advance_crlf(input, evs, FALSE)

\* VtParser::advance(input, events): the contents of `events` on return. The
\* loop over the bytes is folded by halves; the test on `front` makes the
\* evaluator finish the first half before it starts the second
RECURSIVE advance(_, _)
advance(input, evs) ==
    IF input = <<>> THEN evs
    ELSE IF Len(input) = 1 THEN evs \o advance_byte(input[1])
    ELSE LET half == Len(input) \div 2
             front == advance(SubSeq(input, 1, half), evs)
         IN  IF Len(front) >= 0
             THEN advance(SubSeq(input, half + 1, Len(input)), front)
             ELSE front

----------------------------------------------------------------------------
(* crate screen *)

\* variant: a size rejected only when both dimensions are zero
validate_size_both(size) == ~(size.cols = 0 /\ size.rows = 0)

\* validate_size: TRUE for Ok(()), FALSE for Err(InvalidSize)
validate_size(size) == ~(size.cols = 0 \/ size.rows = 0)

\* Screen::new, for a size that validates
new(size) ==
    [size |-> size,
     cursor |-> [col |-> 0, row |-> 0],
     cells |-> blank(size.cols * size.rows),
     scrollback |-> <<>>,
     scroll_offset |-> 0]

\* variant: the cell index computed column-major
index_transposed(s, col, row) == col * s.size.rows + row

\* Screen::index
index(s, col, row) == row * s.size.cols + col

\* Screen::clear
clear(s) ==
    [s EXCEPT !.cells = blank(Len(s.cells)),
              !.cursor = [col |-> 0, row |-> 0],
              !.scroll_offset = 0]

\* Screen::scroll_to_bottom
scroll_to_bottom(s) == [s EXCEPT !.scroll_offset = 0]

\* Screen::is_scrolled
is_scrolled(s) == s.scroll_offset > 0

\* variant: the sum clamped at 0 only
scroll_view_unclamped(s, delta) ==
    LET current == s.scroll_offset
        next == Max(wrapping_add_i32(current, delta), 0)
    IN  IF next /= current
        THEN [screen |-> [s EXCEPT !.scroll_offset = next], ret |-> TRUE]
        ELSE [screen |-> s, ret |-> FALSE]

\* Screen::scroll_view when `current + delta` does not trap:
\* the screen on return and the returned bool
scroll_view(s, delta) ==
    LET max_offset == Len(s.scrollback)
        current == s.scroll_offset
        next == clamp(wrapping_add_i32(current, delta), 0, max_offset)
    IN  IF next /= current
        THEN [screen |-> [s EXCEPT !.scroll_offset = next], ret |-> TRUE]
        ELSE [screen |-> s, ret |-> FALSE]

\* variant: at the cap the row just pushed is dropped instead of the oldest one
scroll_up_drops_newest(s) ==
    LET cols == s.size.cols
        rows == s.size.rows
        top_line == SubSeq(s.cells, 1, cols)
        pushed == Append(s.scrollback, top_line)
        evict == Len(pushed) > MAX_SCROLLBACK_LINES
        scrollback == IF evict THEN s.scrollback ELSE pushed
        scroll_offset ==
            IF evict
            THEN (IF s.scroll_offset > 0 THEN s.scroll_offset - 1 ELSE s.scroll_offset)
            ELSE (IF s.scroll_offset > 0
                  THEN Min(s.scroll_offset + 1, Len(scrollback))
                  ELSE s.scroll_offset)
        cells == SubSeq(s.cells, cols + 1, rows * cols) \o blank(cols)
    IN  IF rows = 0 \/ cols = 0 THEN s
        ELSE [s EXCEPT !.scrollback = scrollback,
                       !.scroll_offset = scroll_offset,
                       !.cells = cells]

\* Screen::scroll_up
scroll_up(s) ==
    LET cols == s.size.cols
        rows == s.size.rows
        top_line == SubSeq(s.cells, 1, cols)
        pushed == Append(s.scrollback, top_line)
        evict == Len(pushed) > MAX_SCROLLBACK_LINES
        scrollback == IF evict THEN Tail(pushed) ELSE pushed
        scroll_offset ==
            IF evict
            THEN (IF s.scroll_offset > 0 THEN s.scroll_offset - 1 ELSE s.scroll_offset)
            ELSE (IF s.scroll_offset > 0
                  THEN Min(s.scroll_offset + 1, Len(scrollback))
                  ELSE s.scroll_offset)
        \* rows 1..rows-1 copied one row up, then the last row blanked
        cells == SubSeq(s.cells, cols + 1, rows * cols) \o blank(cols)
    IN  IF rows = 0 \/ cols = 0 THEN s
        ELSE [s EXCEPT !.scrollback = scrollback,
                       !.scroll_offset = scroll_offset,
                       !.cells = cells]

\* variant: the scroll test off by one, so that the grid scrolls a line feed late
newline_late(s) ==
    LET row == saturating_add(s.cursor.row, 1)
    IN  IF row > s.size.rows
        THEN [scroll_up(s) EXCEPT !.cursor.row = saturating_sub(s.size.rows, 1)]
        ELSE [s EXCEPT !.cursor.row = row]

\* variant: a line feed that also returns the carriage
newline_crlf(s) ==
    LET row == saturating_add(s.cursor.row, 1)
    IN  IF row >= s.size.rows
        THEN [scroll_up(s) EXCEPT !.cursor = [col |-> 0, row |-> saturating_sub(s.size.rows, 1)]]
        ELSE [s EXCEPT !.cursor = [col |-> 0, row |-> row]]

\* Screen::newline
newline(s) ==
    LET row == saturating_add(s.cursor.row, 1)
    IN  IF row >= s.size.rows
        THEN [scroll_up(s) EXCEPT !.cursor.row = saturating_sub(s.size.rows, 1)]
        ELSE [s EXCEPT !.cursor.row = row]

\* variant: a carriage return that also feeds a line
carriage_return_crlf(s) == newline([s EXCEPT !.cursor.col = 0])

\* Screen::carriage_return
carriage_return(s) == [s EXCEPT !.cursor.col = 0]

\* variant: at column 0 the cursor wraps back to the end of the previous row
backspace_wrapping(s) ==
    LET at_start == s.cursor.col = 0
        col == IF at_start THEN s.size.cols - 1 ELSE s.cursor.col - 1
        row == IF at_start THEN s.cursor.row - 1 ELSE s.cursor.row
        idx == index(s, col, row)
    IN  IF at_start /\ s.cursor.row = 0 THEN s
        ELSE [s EXCEPT !.cursor = [col |-> col, row |-> row],
                       !.cells = IF idx < Len(s.cells)
                                 THEN [s.cells EXCEPT ![idx + 1] = SPACE]
                                 ELSE s.cells]

\* Screen::backspace
backspace(s) ==
    IF s.cursor.col > 0
    THEN LET col == s.cursor.col - 1
             idx == index(s, col, s.cursor.row)
         IN  [s EXCEPT !.cursor.col = col,
                       !.cells = IF idx < Len(s.cells)
                                 THEN [s.cells EXCEPT ![idx + 1] = SPACE]
                                 ELSE s.cells]
    ELSE s

\* variant: the wrap feeds a line but leaves the column where it was
advance_cursor_noreturn(s) ==
    LET col == saturating_add(s.cursor.col, 1)
    IN  IF col >= s.size.cols
        THEN newline(s)
        ELSE [s EXCEPT !.cursor.col = col]

\* variant: the wrap at the last column forgotten
advance_cursor_nowrap(s) == [s EXCEPT !.cursor.col = saturating_add(s.cursor.col, 1)]

\* Screen::advance_cursor
advance_cursor(s) ==
    LET col == saturating_add(s.cursor.col, 1)
    IN  IF col >= s.size.cols
        THEN newline([s EXCEPT !.cursor.col = 0])
        ELSE [s EXCEPT !.cursor.col = col]

\* variant: the cursor advanced before the cell is written
print_char_late(s, ch) ==
    LET t == advance_cursor(s)
        idx == index(t, t.cursor.col, t.cursor.row)
    IN  [t EXCEPT !.cells = IF idx < Len(t.cells)
                            THEN [t.cells EXCEPT ![idx + 1] = ch]
                            ELSE t.cells]

\* Screen::print_char
print_char(s, ch) ==
    LET idx == index(s, s.cursor.col, s.cursor.row)
    IN  advance_cursor([s EXCEPT !.cells = IF idx < Len(s.cells)
                                           THEN [s.cells EXCEPT ![idx + 1] = ch]
                                           ELSE s.cells])

\* Screen::apply_event
apply_event(s, event) ==
    CASE event[1] = "Print" -> print_char(s, event[2])
      [] event[1] = "Newline" -> newline(s)
      [] event[1] = "CarriageReturn" -> carriage_return(s)
      [] event[1] = "Backspace" -> backspace(s)

\* Screen::apply_events: the loop over the slice, folded by halves; the test on
\* `mid` makes the evaluator finish the first half before it starts the second,
\* so that a long slice does not nest one evaluation per event
RECURSIVE apply_events(_, _)
apply_events(s, evs) ==
    IF evs = <<>> THEN s
    ELSE IF Len(evs) = 1 THEN apply_event(s, evs[1])
    ELSE LET half == Len(evs) \div 2
             mid == apply_events(s, SubSeq(evs, 1, half))
         IN  IF mid.scroll_offset >= 0
             THEN apply_events(mid, SubSeq(evs, half + 1, Len(evs)))
             ELSE mid

\* variant: the old cells copied in storage order, so that content reflows
resize_reflow(s, size) ==
    LET new_cells == [i \in 1..(size.cols * size.rows) |->
                        IF i <= Len(s.cells) THEN s.cells[i] ELSE SPACE]
        scrollback == [k \in 1..Len(s.scrollback) |->
                        LET line == s.scrollback[k]
                        IN  IF Len(line) < size.cols
                            THEN line \o blank(size.cols - Len(line))
                            ELSE SubSeq(line, 1, size.cols)]
    IN  [size |-> size,
         cells |-> new_cells,
         scrollback |-> scrollback,
         scroll_offset |-> IF s.scroll_offset > Len(scrollback)
                           THEN Len(scrollback) ELSE s.scroll_offset,
         cursor |-> [col |-> IF s.cursor.col >= size.cols
                             THEN saturating_sub(size.cols, 1) ELSE s.cursor.col,
                     row |-> IF s.cursor.row >= size.rows
                             THEN saturating_sub(size.rows, 1) ELSE s.cursor.row]]

\* variant: the retained Scrollback rows are left at their old width
resize_grid_only(s, size) ==
    LET min_cols == Min(s.size.cols, size.cols)
        min_rows == Min(s.size.rows, size.rows)
        new_cells == [i \in 1..(size.cols * size.rows) |->
                        LET row == (i - 1) \div size.cols
                            col == (i - 1) % size.cols
                        IN  IF row < min_rows /\ col < min_cols
                            THEN At(s.cells, row * s.size.cols + col)
                            ELSE SPACE]
    IN  [size |-> size,
         cells |-> new_cells,
         scrollback |-> s.scrollback,
         scroll_offset |-> IF s.scroll_offset > Len(s.scrollback)
                           THEN Len(s.scrollback) ELSE s.scroll_offset,
         cursor |-> [col |-> IF s.cursor.col >= size.cols
                             THEN saturating_sub(size.cols, 1) ELSE s.cursor.col,
                     row |-> IF s.cursor.row >= size.rows
                             THEN saturating_sub(size.rows, 1) ELSE s.cursor.row]]

\* Screen::resize, for a size that validates
resize(s, size) ==
    LET min_cols == Min(s.size.cols, size.cols)
        min_rows == Min(s.size.rows, size.rows)
        new_cells == [i \in 1..(size.cols * size.rows) |->
                        LET row == (i - 1) \div size.cols
                            col == (i - 1) % size.cols
                        IN  IF row < min_rows /\ col < min_cols
                            THEN At(s.cells, row * s.size.cols + col)
                            ELSE SPACE]
        scrollback == [k \in 1..Len(s.scrollback) |->
                        LET line == s.scrollback[k]
                        IN  IF Len(line) < size.cols
                            THEN line \o blank(size.cols - Len(line))
                            ELSE SubSeq(line, 1, size.cols)]
    IN  [size |-> size,
         cells |-> new_cells,
         scrollback |-> scrollback,
         scroll_offset |-> IF s.scroll_offset > Len(scrollback)
                           THEN Len(scrollback) ELSE s.scroll_offset,
         cursor |-> [col |-> IF s.cursor.col >= size.cols
                             THEN saturating_sub(size.cols, 1) ELSE s.cursor.col,
                     row |-> IF s.cursor.row >= size.rows
                             THEN saturating_sub(size.rows, 1) ELSE s.cursor.row]]

\* variant: the scroll offset counted from the oldest row instead of the live view
render_row_from_top(s, row) ==
    LET cols == s.size.cols
        offset == Min(s.scroll_offset, Len(s.scrollback))
        line_index == offset + row
    IN  IF line_index < Len(s.scrollback)
        THEN LET line == At(s.scrollback, line_index)
             IN  SubSeq(line, 1, Min(cols, Len(line)))
        ELSE LET screen_row == line_index - Len(s.scrollback)
                 start == screen_row * cols
             IN  SubSeq(s.cells, start + 1, start + cols)

\* one row of Screen::render_chars
render_row(s, row) ==
    LET rows == s.size.rows
        cols == s.size.cols
        total_lines == Len(s.scrollback) + rows
        offset == Min(s.scroll_offset, Len(s.scrollback))
        start_line == saturating_sub(total_lines, rows + offset)
        line_index == start_line + row
    IN  IF line_index < Len(s.scrollback)
        THEN LET line == At(s.scrollback, line_index)
             IN  SubSeq(line, 1, Min(cols, Len(line)))
        ELSE LET screen_row == line_index - Len(s.scrollback)
                 start == screen_row * cols
             IN  SubSeq(s.cells, start + 1, start + cols)

\* Screen::render_chars: the contents of `out` on return
RECURSIVE render_from(_, _)
render_from(s, row) ==
    IF row >= s.size.rows THEN <<>>
    ELSE render_row(s, row) \o render_from(s, row + 1)

render_chars(s) == render_from(s, 0)

----------------------------------------------------------------------------
(* crate pty (Windows backend): the OS handles of a session *)

\* the handles one spawn attempt can acquire: the two ends of the input pipe
\* and of the output pipe, the pseudo-console, and the child's process and
\* thread handles
Handles == {"input_read", "input_write", "output_read", "output_write",
            "hpc", "process", "thread"}

\* the fallible OS steps of PtyInner::spawn, in program order
SpawnSteps == <<"CreatePipe_input", "CreatePipe_output",
                "SetHandleInformation_input_read", "SetHandleInformation_output_write",
                "SetHandleInformation_input_write", "SetHandleInformation_output_read",
                "CreatePseudoConsole", "AttributeListSize",
                "InitializeProcThreadAttributeList", "UpdateProcThreadAttribute",
                "CreateProcessW">>

\* the OS before any call: the log of calls, how often each handle was closed,
\* the handles open, and the size the pseudo-console holds
no_os ==
    [calls |-> <<>>,
     closes |-> [h \in Handles |-> 0],
     open |-> {},
     console |-> [cols |-> 0, rows |-> 0]]

\* variant: only the column count is tested
validate_cols_only(size) == ~(size.cols = 0)

\* PtySize::validate: TRUE for Ok(()), FALSE for Err(InvalidSize)
validate(size) == ~(size.cols = 0 \/ size.rows = 0)

\* `x as i16` for a u16 x
as_i16(x) == IF x > 32767 THEN x - 65536 ELSE x

\* COORD { X: size.cols as i16, Y: size.rows as i16 }
coord(size) == [cols |-> as_i16(size.cols), rows |-> as_i16(size.rows)]

\* an OS call recorded in the log
os_call(o, api, arg) == [o EXCEPT !.calls = Append(@, <<api, arg>>)]

\* an OS call that returns new open handles
os_open(o, api, arg, hs) ==
    [o EXCEPT !.calls = Append(@, <<api, arg>>), !.open = @ \cup hs]

\* CloseHandle / ClosePseudoConsole on handle h
os_close(o, api, h) ==
    [o EXCEPT !.calls = Append(@, <<api, h>>),
              !.closes[h] = @ + 1,
              !.open = @ \ {h}]

\* close_handle (every handle passed to it here is a valid one)
close_handle(o, h) == os_close(o, "CloseHandle", h)

\* the owning values of the crate: <<kind, handle>>
HandleGuard(h) == <<"HandleGuard", h>>
PseudoConsoleGuard(h) == <<"PseudoConsoleGuard", h>>
FileOf(h) == <<"File", h>>
AttrListGuard == <<"AttrListGuard", "attr_list">>

\* Drop of one owning value
drop_owner(o, owner) ==
    CASE owner[1] = "HandleGuard" -> close_handle(o, owner[2])
      [] owner[1] = "File" -> os_close(o, "CloseHandle", owner[2])
      [] owner[1] = "PseudoConsoleGuard" -> os_close(o, "ClosePseudoConsole", owner[2])
      [] owner[1] = "AttrListGuard" -> os_call(o, "DeleteProcThreadAttributeList", owner[2])

\* the locals of a function dropped at an early return: in reverse order of
\* declaration
RECURSIVE unwind(_, _)
unwind(o, owners) ==
    IF owners = <<>> THEN o
    ELSE unwind(drop_owner(o, owners[Len(owners)]), SubSeq(owners, 1, Len(owners) - 1))

\* the result of a spawn attempt that returned Err at `step`
spawn_err(o, owners, step) ==
    [os |-> unwind(o, owners), ok |-> FALSE, err |-> "Windows", at |-> step]

\* PtyInner::spawn; `fail` names the OS step that fails ("none": all succeed).
\* The four pipe handles are raw values until the guards are made (145-148);
\* after into_inner (163-166) conpty_input and conpty_output are raw again.
inner_spawn(o0, size, fail) ==
    LET o1 == os_open(o0, "CreatePipe", "input", {"input_read", "input_write"})
        o2 == os_open(o1, "CreatePipe", "output", {"output_read", "output_write"})
        o3 == os_call(o2, "SetHandleInformation", "input_read")
        o4 == os_call(o3, "SetHandleInformation", "output_write")
        o5 == os_call(o4, "SetHandleInformation", "input_write")
        o6 == os_call(o5, "SetHandleInformation", "output_read")
        guards == <<HandleGuard("input_read"), HandleGuard("input_write"),
                    HandleGuard("output_read"), HandleGuard("output_write")>>
        o7 == [os_open(o6, "CreatePseudoConsole", coord(size), {"hpc"})
                  EXCEPT !.console = coord(size)]
        \* hpc_guard, then the two Files made from the forgotten guards
        held == <<PseudoConsoleGuard("hpc"), FileOf("input_write"), FileOf("output_read")>>
        o8 == os_call(o7, "InitializeProcThreadAttributeList", "size")
        o9 == os_call(o8, "InitializeProcThreadAttributeList", "init")
        listed == Append(held, AttrListGuard)
        o10 == os_call(o9, "UpdateProcThreadAttribute", "hpc")
        o11 == os_open(o10, "CreateProcessW", "command", {"process", "thread"})
        \* Ok(Self { .. }): attr_list_guard is the only local left to drop
        done == unwind(o11, <<AttrListGuard>>)
    IN  IF fail = "CreatePipe_input"
            THEN spawn_err(os_call(o0, "CreatePipe", "input"), <<>>, fail)
        ELSE IF fail = "CreatePipe_output"
            THEN spawn_err(os_call(o1, "CreatePipe", "output"), <<>>, fail)
        ELSE IF fail = "SetHandleInformation_input_read" THEN spawn_err(o3, <<>>, fail)
        ELSE IF fail = "SetHandleInformation_output_write" THEN spawn_err(o4, <<>>, fail)
        ELSE IF fail = "SetHandleInformation_input_write" THEN spawn_err(o5, <<>>, fail)
        ELSE IF fail = "SetHandleInformation_output_read" THEN spawn_err(o6, <<>>, fail)
        ELSE IF fail = "CreatePseudoConsole"
            THEN spawn_err(os_call(o6, "CreatePseudoConsole", coord(size)), guards, fail)
        ELSE IF fail = "AttributeListSize" THEN spawn_err(o8, held, fail)
        ELSE IF fail = "InitializeProcThreadAttributeList" THEN spawn_err(o9, held, fail)
        ELSE IF fail = "UpdateProcThreadAttribute" THEN spawn_err(o10, listed, fail)
        ELSE IF fail = "CreateProcessW"
            THEN spawn_err(os_call(o10, "CreateProcessW", "command"), listed, fail)
        ELSE [os |-> done, ok |-> TRUE, err |-> "none", at |-> "none"]

\* Pty::spawn
pty_spawn(o, size, fail) ==
    IF ~validate(size)
    THEN [os |-> o, ok |-> FALSE, err |-> "InvalidSize", at |-> "validate"]
    ELSE inner_spawn(o, size, fail)

\* Pty::resize on a live session; os_ok: whether ResizePseudoConsole succeeds
pty_resize(o, size, os_ok) ==
    IF ~validate(size)
    THEN [os |-> o, ok |-> FALSE, err |-> "InvalidSize"]
    ELSE LET called == os_call(o, "ResizePseudoConsole", coord(size))
         IN  IF os_ok
             THEN [os |-> [called EXCEPT !.console = coord(size)], ok |-> TRUE, err |-> "none"]
             ELSE [os |-> called, ok |-> FALSE, err |-> "Windows"]

\* variant: Drop for PtyInner also closes the two pipe ends the Files own
pty_drop_closes_files(o) ==
    LET d1 == os_close(o, "ClosePseudoConsole", "hpc")
        d2 == close_handle(d1, "input_write")
        d3 == close_handle(d2, "output_read")
        d4 == close_handle(d3, "input_read")
        d5 == close_handle(d4, "output_write")
        d6 == close_handle(d5, "process")
        d7 == close_handle(d6, "thread")
        d8 == drop_owner(d7, FileOf("input_write"))
    IN  drop_owner(d8, FileOf("output_read"))

\* variant: the process and thread handles closed ahead of the pseudo-console
pty_drop_process_first(o) ==
    LET d1 == close_handle(o, "process")
        d2 == close_handle(d1, "thread")
        d3 == os_close(d2, "ClosePseudoConsole", "hpc")
        d4 == close_handle(d3, "input_read")
        d5 == close_handle(d4, "output_write")
        d6 == drop_owner(d5, FileOf("input_write"))
    IN  drop_owner(d6, FileOf("output_read"))

\* variant: everything released in the reverse of the order of acquisition
pty_drop_reverse(o) ==
    LET d1 == close_handle(o, "thread")
        d2 == close_handle(d1, "process")
        d3 == os_close(d2, "ClosePseudoConsole", "hpc")
        d4 == close_handle(d3, "output_write")
        d5 == drop_owner(d4, FileOf("output_read"))
        d6 == drop_owner(d5, FileOf("input_write"))
    IN  close_handle(d6, "input_read")

\* Drop for PtyInner, followed by the drop of its fields in declaration order
\* (hpc and the raw HANDLE fields have no Drop; the two Files close theirs)
pty_drop(o) ==
    LET d1 == os_close(o, "ClosePseudoConsole", "hpc")
        d2 == close_handle(d1, "input_read")
        d3 == close_handle(d2, "output_write")
        d4 == close_handle(d3, "process")
        d5 == close_handle(d4, "thread")
        d6 == drop_owner(d5, FileOf("input_write"))
    IN  drop_owner(d6, FileOf("output_read"))

\* the program side before any session: no Pty value, no operation made yet;
\* `before` is the OS as the last operation found it
no_pty ==
    [state |-> "none", op |-> "none", arg |-> [cols |-> 0, rows |-> 0],
     ok |-> TRUE, err |-> "none", at |-> "none", resizes |-> 0, before |-> no_os]

----------------------------------------------------------------------------
(* crate app: the interactive loop and the reader thread *)

CELL_WIDTH == 10
CELL_HEIGHT == 20
PADDING_X == 12
PADDING_Y == 12
U8_MAX == 255
STATUS_INTERVAL_MS == 500

\* screen_size_from_pixels; `as u16` keeps the low 16 bits
screen_size_from_pixels(px) ==
    LET usable_width == saturating_sub(px.width, PADDING_X * 2)
        usable_height == saturating_sub(px.height, PADDING_Y * 2)
    IN  [cols |-> Max(usable_width \div CELL_WIDTH, 1) % (U16_MAX + 1),
         rows |-> Max(usable_height \div CELL_HEIGHT, 1) % (U16_MAX + 1)]

\* AppState before a session is started: the fields the loop's decisions read.
\* elapsed is last_status_check.elapsed() in ms, kept up to the status interval;
\* pc is where the loop's thread stands: "idle" between handlers, "drain" inside
\* the try_recv loop of drain_pty; pty_writer is whether a writer is held;
\* input_buffer holds character codes
no_app ==
    [pty_closed |-> FALSE,
     exit_checks_failed |-> 0,
     exit_requested |-> FALSE,
     exited |-> FALSE,
     elapsed |-> 0,
     pc |-> "idle",
     pty_writer |-> FALSE,
     font_prompt |-> FALSE,
     font_download_in_progress |-> FALSE,
     input_len |-> 0,
     input_buffer |-> <<>>]

\* no channel and no reader thread yet. queue: the messages sent and not yet
\* received; rx: the Receiver exists; reader: the thread; child: the bytes the
\* child will still write to its output. font_rx, font_thread, font_queue: the
\* same for the font download and its FontDownloadMessage channel
no_chan ==
    [queue |-> <<>>, rx |-> FALSE, reader |-> "none", child |-> <<>>,
     font_rx |-> FALSE, font_thread |-> "none", font_queue |-> <<>>]

\* enum PtyMessage
Data(bytes) == <<"Data", bytes>>
Closed == <<"Closed">>

\* what the last keyboard event forwarded: nothing. key: the path the event
\* took; sent, bytes: send_input_bytes was called, and with what; wrote: the
\* bytes reached the child's input; closed: pty_closed was true when the event
\* arrived; view: the scroll offset when send_input_bytes was called
no_input ==
    [key |-> "none", sent |-> FALSE, bytes |-> <<>>, wrote |-> FALSE,
     closed |-> FALSE, view |-> 0]

\* history of a run of the loop.
\* probe: the probe the last handler made, "early" for a check made less than
\*   the status interval after the probe before it or the session's start,
\*   "none" otherwise; probes: the last two probe results;
\* since: ms since the last probe or the session start, kept up to the status
\*   interval; gap: what `since` was when the last probe was made;
\* skip_changed: a check made that early changed AppState;
\* read, drained: the chunks the reader enqueued and those the loop drained;
\* sends: every turn of the reader's loop (the message it sent, whether the
\*   send succeeded, the read result it followed);
\* screen0: the Screen as start_pty left it; resized, os_refused: the grid was
\*   resized, the OS refused a resize, since then;
\* resize: "same" when the last handler was a resize to the current grid size;
\* closed_seen, closed_by: a Closed message was drained; what closed the session;
\* starts, started_held: calls of start_pty (counted up to 2), and whether one
\*   was made with a session held;
\* missed_exit: an AboutToWait found the session closed and did not exit;
\* downloads: the font downloads begun;
\* input: what the last step forwarded, if it was a keyboard event;
\* px, grid, sized: a window size, the grid size screen_size_from_pixels gave
\*   for it, and whether it was asked for
no_hist ==
    [probe |-> "none", probes |-> <<>>, since |-> 0, gap |-> 0,
     skip_changed |-> FALSE,
     read |-> <<>>, drained |-> <<>>, sends |-> <<>>,
     screen0 |-> new([cols |-> 1, rows |-> 1]),
     resized |-> FALSE, os_refused |-> FALSE, resize |-> "none",
     closed_seen |-> FALSE, closed_by |-> "none",
     starts |-> 0, started_held |-> FALSE, missed_exit |-> FALSE,
     downloads |-> 0, input |-> no_input,
     px |-> [width |-> 0, height |-> 0],
     grid |-> [cols |-> 1, rows |-> 1], sized |-> FALSE]

\* variant: a probe is made at every check of a session that is open
probes_now_unpaced(a, has_pty) ==
    ~a.pty_closed /\ has_pty

\* whether check_pty_status reaches pty.is_running(): the session is open, a
\* Pty is held, and 500 ms have passed since last_status_check
probes_now(a, has_pty) ==
    ~a.pty_closed /\ has_pty /\ ~(a.elapsed < STATUS_INTERVAL_MS)

\* variant: a probe error counted like a "not running" result
check_pty_status_err_counts(a, has_pty, probe) ==
    IF ~probes_now(a, has_pty) THEN a
    ELSE LET t == [a EXCEPT !.elapsed = 0]
             n == Min(a.exit_checks_failed + 1, U8_MAX)
         IN  IF probe = "running" THEN [t EXCEPT !.exit_checks_failed = 0]
             ELSE [t EXCEPT !.exit_checks_failed = n,
                            !.pty_closed = (n >= 2)]

\* AppState::check_pty_status; probe is what pty.is_running() returns if called:
\* "running" (Ok(true)), "not_running" (Ok(false)) or "error" (Err)
check_pty_status(a, has_pty, probe) ==
    IF ~probes_now(a, has_pty) THEN a
    ELSE LET t == [a EXCEPT !.elapsed = 0]
         IN  CASE probe = "running" -> [t EXCEPT !.exit_checks_failed = 0]
               [] probe = "not_running" ->
                    LET n == Min(a.exit_checks_failed + 1, U8_MAX)
                    IN  [t EXCEPT !.exit_checks_failed = n,
                                  !.pty_closed = IF n >= 2 THEN TRUE ELSE @]
               [] probe = "error" -> t

\* variant: a read error ends the thread without a message
reader_message_eof_only(result, bytes) ==
    CASE result = "data" -> Data(bytes)
      [] result = "eof" -> Closed
      [] result = "error" -> <<"None">>

\* spawn_reader_thread: the message sent for a read result. Ok(n) sends the n
\* bytes, Ok(0) and Err send Closed
reader_message(result, bytes) ==
    CASE result = "data" -> Data(bytes)
      [] result = "eof" -> Closed
      [] result = "error" -> Closed

\* variant: the newest queued message received first
try_recv_newest(queue) ==
    [msg |-> queue[Len(queue)], rest |-> SubSeq(queue, 1, Len(queue) - 1)]

\* Receiver::try_recv on a queue that is not empty: the message and what is left
try_recv(queue) == [msg |-> Head(queue), rest |-> Tail(queue)]

\* the PtyMessage::Data arm of drain_pty: decode into the (empty) event Vec and
\* apply what was decoded
drain_data(s, bytes) ==
    LET evs == advance(bytes, <<>>)
    IN  IF evs /= <<>> THEN apply_events(s, evs) ELSE s

\* variant: the grid and the pseudo-terminal are resized whatever the size
app_resize_always(s, o, has_pty, px, os_ok) ==
    LET screen_size == screen_size_from_pixels(px)
        r == pty_resize(o, screen_size, os_ok)
    IN  IF px.width = 0 \/ px.height = 0 THEN [screen |-> s, os |-> o, refused |-> FALSE, called |-> FALSE]
        ELSE [screen |-> IF validate_size(screen_size) THEN resize(s, screen_size) ELSE s,
              os |-> IF has_pty THEN r.os ELSE o,
              refused |-> has_pty /\ r.err = "Windows",
              called |-> has_pty]

\* variant: the pseudo-terminal is not told about the new size
app_resize_screen_only(s, o, has_pty, px, os_ok) ==
    LET screen_size == screen_size_from_pixels(px)
    IN  IF px.width = 0 \/ px.height = 0 THEN [screen |-> s, os |-> o, refused |-> FALSE, called |-> FALSE]
        ELSE IF screen_size /= s.size
        THEN [screen |-> IF validate_size(screen_size) THEN resize(s, screen_size) ELSE s,
              os |-> o, refused |-> FALSE, called |-> FALSE]
        ELSE [screen |-> s, os |-> o, refused |-> FALSE, called |-> FALSE]

\* AppState::resize: the Screen and the OS on return, and whether the OS refused
\* the pseudo-console resize
app_resize(s, o, has_pty, px, os_ok) ==
    LET screen_size == screen_size_from_pixels(px)
        r == pty_resize(o, screen_size, os_ok)
    IN  IF px.width = 0 \/ px.height = 0 THEN [screen |-> s, os |-> o, refused |-> FALSE, called |-> FALSE]
        ELSE IF screen_size /= s.size
        THEN [screen |-> IF validate_size(screen_size) THEN resize(s, screen_size) ELSE s,
              os |-> IF has_pty THEN r.os ELSE o,
              refused |-> has_pty /\ r.err = "Windows",
              called |-> has_pty]
        ELSE [screen |-> s, os |-> o, refused |-> FALSE, called |-> FALSE]

\* the bytes of the text of show_font_prompt
FONT_PROMPT_TEXT ==
    <<67, 97, 115, 99, 97, 100, 105, 97, 32, 67, 111, 100, 101, 32, 110, 111,
      116, 32, 102, 111, 117, 110, 100, 46, 13, 10, 80, 114, 101, 115, 115,
      32, 89, 32, 116, 111, 32, 100, 111, 119, 110, 108, 111, 97, 100, 32,
      105, 116, 32, 40, 117, 115, 101, 115, 32, 110, 101, 116, 119, 111, 114,
      107, 41, 32, 111, 114, 32, 78, 32, 116, 111, 32, 99, 111, 110, 116,
      105, 110, 117, 101, 32, 119, 105, 116, 104, 32, 116, 104, 101, 32, 102,
      97, 108, 108, 98, 97, 99, 107, 32, 102, 111, 110, 116, 46, 13, 10>>

\* the bytes of the text of show_font_download_pending
FONT_PENDING_TEXT ==
    <<68, 111, 119, 110, 108, 111, 97, 100, 105, 110, 103, 32, 67, 97, 115,
      99, 97, 100, 105, 97, 32, 67, 111, 100, 101, 46, 46, 46, 13, 10>>

\* the bytes of the text of show_font_download_error, for the error text "e"
FONT_ERROR_TEXT ==
    <<68, 111, 119, 110, 108, 111, 97, 100, 32, 102, 97, 105, 108, 101, 100,
      58, 32, 101, 13, 10, 80, 114, 101, 115, 115, 32, 89, 32, 116, 111, 32,
      114, 101, 116, 114, 121, 32, 111, 114, 32, 78, 32, 116, 111, 32, 99,
      111, 110, 116, 105, 110, 117, 101, 32, 119, 105, 116, 104, 32, 116,
      104, 101, 32, 102, 97, 108, 108, 98, 97, 99, 107, 32, 102, 111, 110,
      116, 46, 13, 10>>

\* the bytes of the text of show_font_download_error when the font cannot be applied, for the error "e"
FONT_APPLY_ERROR_TEXT ==
    <<68, 111, 119, 110, 108, 111, 97, 100, 32, 102, 97, 105, 108, 101, 100,
      58, 32, 70, 97, 105, 108, 101, 100, 32, 116, 111, 32, 97, 112, 112,
      108, 121, 32, 100, 111, 119, 110, 108, 111, 97, 100, 101, 100, 32, 102,
      111, 110, 116, 58, 32, 101, 13, 10, 80, 114, 101, 115, 115, 32, 89, 32,
      116, 111, 32, 114, 101, 116, 114, 121, 32, 111, 114, 32, 78, 32, 116,
      111, 32, 99, 111, 110, 116, 105, 110, 117, 101, 32, 119, 105, 116, 104,
      32, 116, 104, 101, 32, 102, 97, 108, 108, 98, 97, 99, 107, 32, 102,
      111, 110, 116, 46, 13, 10>>

\* the bytes of the text of the message shown when start_pty fails, for the error "e"
START_ERROR_TEXT ==
    <<70, 97, 105, 108, 101, 100, 32, 116, 111, 32, 115, 116, 97, 114, 116,
      32, 115, 104, 101, 108, 108, 58, 32, 101, 13, 10, 67, 108, 111, 115,
      101, 32, 116, 104, 101, 32, 119, 105, 110, 100, 111, 119, 32, 116, 111,
      32, 101, 120, 105, 116, 46, 13, 10>>

\* the state the loop's handlers work on, as one record
World ==
    [screen |-> screen, os |-> os, pty |-> pty, app |-> app, chan |-> chan,
     hist |-> hist]

\* AppState::show_system_message
show_system_message(w, text) ==
    [w EXCEPT !.screen = apply_events(scroll_to_bottom(clear(w.screen)),
                                      advance(text, <<>>))]

\* AppState::show_font_download_error
show_font_download_error(w, text) ==
    show_system_message([w EXCEPT !.app.font_prompt = TRUE], text)

\* AppState::start_pty. fail: the step of Pty::spawn that fails; clone_ok:
\* whether pty.reader() and pty.writer() succeed (on Err the Pty is dropped);
\* child: what the child will write. ok is whether it returned Ok
start_pty(w, fail, clone_ok, child) ==
    LET size == [cols |-> w.screen.size.cols, rows |-> w.screen.size.rows]
        r == pty_spawn(w.os, size, fail)
        started == r.ok /\ clone_ok
        cleared == scroll_to_bottom(clear(w.screen))
        counted == [w.hist EXCEPT
                      !.starts = Min(@ + 1, 2),
                      !.started_held = @ \/ w.pty.state = "active"]
        spawned == [w.pty EXCEPT
                      !.state = IF started THEN "active" ELSE "failed",
                      !.op = "spawn", !.arg = size, !.ok = r.ok,
                      !.err = r.err, !.at = r.at, !.before = w.os]
    IN  IF started
        THEN [ok |-> TRUE,
              w |-> [w EXCEPT
                       !.os = r.os,
                       !.pty = spawned,
                       !.screen = cleared,
                       !.app = [@ EXCEPT !.font_prompt = FALSE,
                                         !.pty_writer = TRUE,
                                         !.pty_closed = FALSE,
                                         !.elapsed = 0,
                                         !.exit_checks_failed = 0,
                                         !.input_len = 0,
                                         !.input_buffer = <<>>,
                                         !.exit_requested = FALSE],
                       !.chan = [@ EXCEPT !.queue = <<>>, !.rx = TRUE,
                                          !.reader = "running", !.child = child],
                       !.hist = [counted EXCEPT !.screen0 = cleared,
                                                !.since = 0,
                                                !.resized = FALSE]]]
        ELSE [ok |-> FALSE,
              w |-> [w EXCEPT
                       !.os = IF r.ok THEN pty_drop(r.os) ELSE r.os,
                       !.pty = spawned,
                       !.hist = counted]]

\* the callers of start_pty after AppState::new: font_prompt is cleared first,
\* and a failure is shown on the Screen
start_or_report(w, fail, clone_ok, child) ==
    LET r == start_pty([w EXCEPT !.app.font_prompt = FALSE], fail, clone_ok, child)
    IN  IF r.ok THEN r.w ELSE show_system_message(r.w, START_ERROR_TEXT)

\* the choice handle_font_prompt_input reads from a text: the first of
\* 'y' 'Y' (121, 89) and 'n' 'N' (110, 78) in it
RECURSIVE font_choice(_)
font_choice(text) ==
    IF text = <<>> THEN "none"
    ELSE IF Head(text) \in {121, 89} THEN "yes"
    ELSE IF Head(text) \in {110, 78} THEN "no"
    ELSE font_choice(Tail(text))

\* AppState::begin_font_download
begin_font_download(w) ==
    IF w.app.font_download_in_progress THEN w
    ELSE LET shown == show_system_message(
                          [w EXCEPT !.app.font_download_in_progress = TRUE],
                          FONT_PENDING_TEXT)
         IN  [shown EXCEPT !.chan = [@ EXCEPT !.font_rx = TRUE,
                                              !.font_thread = "running",
                                              !.font_queue = <<>>],
                           !.hist.downloads = @ + 1]

\* variant: font_prompt is left set when the user declines the download
handle_font_prompt_input_keeps_prompt(w, text, fail, clone_ok, child) ==
    IF w.app.font_download_in_progress THEN w
    ELSE CASE font_choice(text) = "yes" -> begin_font_download(w)
           [] font_choice(text) = "no" ->
                LET r == start_pty(w, fail, clone_ok, child)
                IN  IF r.ok THEN r.w ELSE show_system_message(r.w, START_ERROR_TEXT)
           [] OTHER -> w

\* AppState::handle_font_prompt_input
handle_font_prompt_input(w, text, fail, clone_ok, child) ==
    IF w.app.font_download_in_progress THEN w
    ELSE CASE font_choice(text) = "yes" -> begin_font_download(w)
           [] font_choice(text) = "no" -> start_or_report(w, fail, clone_ok, child)
           [] OTHER -> w

\* AppState::drain_font_download. The last message received counts; apply_ok:
\* whether apply_downloaded_font succeeds
drain_font_download(w, apply_ok, fail, clone_ok, child) ==
    IF ~w.chan.font_rx \/ w.chan.font_queue = <<>> THEN w
    ELSE LET message == w.chan.font_queue[Len(w.chan.font_queue)]
             taken == [w EXCEPT !.chan = [@ EXCEPT !.font_rx = FALSE,
                                                   !.font_queue = <<>>],
                                !.app.font_download_in_progress = FALSE]
         IN  IF message = "Ok"
             THEN IF apply_ok
                  THEN start_or_report(taken, fail, clone_ok, child)
                  ELSE show_font_download_error(taken, FONT_APPLY_ERROR_TEXT)
             ELSE show_font_download_error(taken, FONT_ERROR_TEXT)

\* variant: the view is left where it is when there is no writer
send_input_bytes_writer_only(w, bytes, write_ok) ==
    [w EXCEPT !.screen = IF w.app.pty_writer THEN scroll_to_bottom(@) ELSE @,
              !.hist.input = [@ EXCEPT !.sent = TRUE, !.bytes = bytes,
                                       !.wrote = w.app.pty_writer /\ write_ok,
                                       !.view = w.screen.scroll_offset]]

\* AppState::send_input_bytes; write_ok: whether write_all succeeds. The
\* history keeps the bytes and whether they reached the child's input
send_input_bytes(w, bytes, write_ok) ==
    [w EXCEPT !.screen = scroll_to_bottom(@),
              !.hist.input = [@ EXCEPT !.sent = TRUE, !.bytes = bytes,
                                       !.wrote = w.app.pty_writer /\ write_ok,
                                       !.view = w.screen.scroll_offset]]

\* char::is_control, for one-byte characters
is_control(ch) == ch < 32 \/ (ch >= 127 /\ ch < 160)

\* the characters of a text that are not control characters
RECURSIVE filtered(_)
filtered(text) ==
    IF text = <<>> THEN <<>>
    ELSE IF is_control(Head(text)) THEN filtered(Tail(text))
    ELSE <<Head(text)>> \o filtered(Tail(text))

\* AppState::handle_input_text
handle_input_text(w, text, write_ok, fail, clone_ok, child) ==
    IF w.app.pty_closed THEN w
    ELSE IF w.app.font_prompt
    THEN handle_font_prompt_input(w, text, fail, clone_ok, child)
    ELSE IF filtered(text) /= <<>>
    THEN send_input_bytes(
             [w EXCEPT !.app.input_len = @ + Len(filtered(text)),
                       !.app.input_buffer = @ \o filtered(text)],
             filtered(text), write_ok)
    ELSE w

\* char::to_ascii_lowercase and char::to_ascii_uppercase
to_ascii_lowercase(ch) == IF ch >= 65 /\ ch <= 90 THEN ch + 32 ELSE ch
to_ascii_uppercase(ch) == IF ch >= 97 /\ ch <= 122 THEN ch - 32 ELSE ch

\* str::trim, for one-byte characters: White_Space at either end removed
RECURSIVE trim_start(_)
trim_start(s) ==
    IF s /= <<>> /\ Head(s) \in {9, 10, 11, 12, 13, 32, 133, 160}
    THEN trim_start(Tail(s)) ELSE s

RECURSIVE trim_end(_)
trim_end(s) ==
    IF s /= <<>> /\ s[Len(s)] \in {9, 10, 11, 12, 13, 32, 133, 160}
    THEN trim_end(SubSeq(s, 1, Len(s) - 1)) ELSE s

trim(s) == trim_end(trim_start(s))

\* str::eq_ignore_ascii_case
eq_ignore_ascii_case(a, b) ==
    /\ Len(a) = Len(b)
    /\ \A i \in 1..Len(a) : to_ascii_lowercase(a[i]) = to_ascii_lowercase(b[i])

\* "exit"
EXIT == <<101, 120, 105, 116>>

\* variant: the line compared with "exit" as typed, case and all
is_exit_line_exact(buffer) == trim(buffer) = EXIT

\* the test of the Enter arm: input_buffer.trim().eq_ignore_ascii_case("exit")
is_exit_line(buffer) == eq_ignore_ascii_case(trim(buffer), EXIT)

\* AppState::handle_special_key
handle_special_key(w, key, write_ok) ==
    IF w.app.pty_closed THEN w
    ELSE IF w.app.font_prompt THEN w
    ELSE CASE key = "Enter" ->
                LET exits == is_exit_line(w.app.input_buffer)
                IN  send_input_bytes(
                        [w EXCEPT !.app.exit_requested = IF exits THEN TRUE ELSE @,
                                  !.app.pty_closed = IF exits THEN TRUE ELSE @,
                                  !.app.input_len = 0,
                                  !.app.input_buffer = <<>>,
                                  !.hist.closed_by = IF exits THEN "user" ELSE @],
                        <<13>>, write_ok)
           [] key = "Backspace" ->
                IF w.app.input_len > 0
                THEN send_input_bytes(
                         [w EXCEPT !.app.input_len = @ - 1,
                                   !.app.input_buffer =
                                       SubSeq(@, 1, Max(Len(@), 1) - 1)],
                         <<8>>, write_ok)
                ELSE w
           [] key = "Escape" -> send_input_bytes(w, <<27>>, write_ok)
           [] key = "Tab" -> send_input_bytes(w, <<9>>, write_ok)
           [] OTHER -> w

\* control_code_for_char: 0 stands for None
control_code_for_char(ch) ==
    IF to_ascii_uppercase(ch) >= 65 /\ to_ascii_uppercase(ch) <= 90
    THEN to_ascii_uppercase(ch) - 65 + 1
    ELSE 0

\* WindowEvent::KeyboardInput. An event has: pressed, ctrl (the Control
\* modifier is held), named (the named key, "none" for a character key), ch
\* (the character of a character key, 0 for a named key) and text (<<>> for
\* no text)
keyboard_input(w, ev, write_ok, fail, clone_ok, child) ==
    LET code == control_code_for_char(ev.ch)
        keyed == IF ev.named /= "none"
                 THEN handle_special_key(w, ev.named, write_ok)
                 ELSE w
        texted(v) == IF ev.text /= <<>>
                     THEN handle_input_text(v, ev.text, write_ok, fail, clone_ok, child)
                     ELSE v
    IN  IF ev.pressed
        THEN IF ev.ctrl
             THEN IF ev.named = "none"
                  THEN IF to_ascii_lowercase(ev.ch) \in {99, 118} THEN w
                       ELSE IF code /= 0
                       THEN send_input_bytes(
                                [w EXCEPT !.app.input_len = IF code = 3 THEN 0 ELSE @],
                                <<code>>, write_ok)
                       ELSE w
                  ELSE w
             ELSE texted(keyed)
        ELSE texted(w)

\* variant: only an exit request ends the loop
loop_exits_on_request(a) == a.exit_requested

\* the two tests that end Event::AboutToWait with target.exit()
loop_exits(a) == a.exit_requested \/ a.pty_closed

\* the loop exited: AppState is dropped, and with it the Pty and the Receivers
exit_loop(w) ==
    LET has_pty == w.pty.state = "active"
    IN  [w EXCEPT !.app.exited = TRUE,
                  !.os = IF has_pty THEN pty_drop(@) ELSE @,
                  !.pty = IF has_pty
                          THEN [@ EXCEPT !.state = "dropped", !.op = "drop",
                                         !.before = w.os]
                          ELSE @,
                  !.chan = [@ EXCEPT !.rx = FALSE, !.font_rx = FALSE]]

----------------------------------------------------------------------------
(* Inputs of the exploration *)

\* grid sizes a Screen is created with, and sizes passed to resize (0 is invalid)
Dims == {1, 2}
Sizes == [cols : Dims, rows : Dims]
ResizeArgs == [cols : Dims \cup {0}, rows : Dims \cup {0}]

\* printable characters fed to the Screen: 'A'
Chars == {65}

\* scroll_view deltas: one line either way and the ends of the i32 range
Deltas == {-1, 1, I32_MAX, I32_MIN}

\* a burst of output: MAX_SCROLLBACK_LINES line feeds in one chunk
BurstEvents == [i \in 1..MAX_SCROLLBACK_LINES |-> VtNewline]

\* byte values sampled around every boundary of the decoder's match
SampleBytes == {7, 8, 9, 10, 13, 31, 32, 126, 127, 255}
AllBytes == 0..255
\* the regression fixture: the bytes of "AB\r\nC" and the 80x24 grid they go to
FixtureBytes == <<65, 66, 13, 10, 67>>
FixtureSize == [cols |-> 80, rows |-> 24]

\* a stream of n line feeds
LineFeeds(n) == [i \in 1..n |-> 10]

\* the streams given to the fixture's grid
FixtureStreams == {FixtureBytes, LineFeeds(FixtureSize.rows + 1)}

ByteStreams ==
    UNION {[1..n -> SampleBytes] : n \in 0..MaxLen}
        \cup {<<b>> : b \in AllBytes}
        \cup FixtureStreams

\* grids the decoded operations are applied to
VtSizes == {[cols |-> 1, rows |-> 1], [cols |-> 2, rows |-> 2], FixtureSize}

\* contents of the caller's event Vec before the first advance
Prefixes == {<<>>, <<VtNewline>>, <<VtPrint(66), VtBackspace>>}

----------------------------------------------------------------------------
(* The Screen driven through its public operations *)

\* number of scroll_up calls that applying one event makes
scroll_events(s, event) ==
    LET wraps == saturating_add(s.cursor.col, 1) >= s.size.cols
        feeds == event[1] = "Newline" \/ (event[1] = "Print" /\ wraps)
    IN  IF feeds /\ saturating_add(s.cursor.row, 1) >= s.size.rows THEN 1 ELSE 0

\* number of scroll_up calls that applying a slice of events makes
RECURSIVE scroll_events_of(_, _)
scroll_events_of(s, evs) ==
    IF evs = <<>> THEN 0
    ELSE IF Len(evs) = 1 THEN scroll_events(s, evs[1])
    ELSE LET half == Len(evs) \div 2
             front == SubSeq(evs, 1, half)
             mid == apply_events(s, front)
         IN  IF mid.scroll_offset >= 0
             THEN scroll_events_of(s, front)
                  + scroll_events_of(mid, SubSeq(evs, half + 1, Len(evs)))
             ELSE 0

\* the record kept in `last`: operation, argument, result (TRUE for Ok / true),
\* scroll events it made, and the cursor and size it started from
Op(op, arg, ret, n, from) ==
    [op |-> op, arg |-> arg, ret |-> ret, scrolled |-> n, from |-> from,
     size |-> screen.size]

\* the exploration stops MaxScrolls scroll events after the start or the burst
MayScroll(n) == scrolls - burst + n <= MaxScrolls

\* the exploration keeps the view within MaxView lines of the live view or the top
MayView(s) ==
    \/ s.scroll_offset <= MaxView
    \/ s.scroll_offset >= Len(s.scrollback) - MaxView

Init ==
    /\ \E size \in Sizes :
          /\ validate_size(size)
          /\ screen = new(size)
          /\ last = Op("new", size, TRUE, 0, [col |-> 0, row |-> 0])
    /\ scrolls = 0
    /\ burst = 0
    /\ panicked = FALSE
    /\ vt_input = <<>>
    /\ events = <<>>
    /\ vt_whole = <<>>
    /\ vt_prefix = <<>>
    /\ vt_calls = 0
    /\ os = no_os
    /\ pty = no_pty
    /\ app = no_app
    /\ chan = no_chan
    /\ hist = no_hist

\* Screen::apply_event with one event
ApplyEvent(event) ==
    LET n == scroll_events(screen, event)
    IN  /\ ~panicked
        /\ MayScroll(n)
        /\ screen' = apply_event(screen, event)
        /\ last' = Op(event[1], event, TRUE, n, screen.cursor)
        /\ scrolls' = scrolls + n
        /\ UNCHANGED <<burst, panicked, vtVars, ptyVars, appVars>>

ApplyPrint == \E ch \in Chars : ApplyEvent(VtPrint(ch))
ApplyNewline == ApplyEvent(VtNewline)
ApplyCarriageReturn == ApplyEvent(VtCarriageReturn)
ApplyBackspace == ApplyEvent(VtBackspace)

\* Screen::apply_events with one full line of text: with the cursor in column 0,
\* exactly cols Print events and nothing else
ApplyLine ==
    \E ch \in Chars :
        LET evs == [i \in 1..screen.size.cols |-> VtPrint(ch)]
            n == scroll_events_of(screen, evs)
        IN  /\ ~panicked
            /\ screen.cursor.col = 0
            /\ MayScroll(n)
            /\ screen' = apply_events(screen, evs)
            /\ last' = Op("print_line", evs, TRUE, n, screen.cursor)
            /\ scrolls' = scrolls + n
            /\ UNCHANGED <<burst, panicked, vtVars, ptyVars, appVars>>

\* Screen::apply_events with the burst, as the first output of a session
ApplyBurst ==
    LET n == scroll_events_of(screen, BurstEvents)
    IN  /\ ~panicked
        /\ last.op = "new" /\ last.ret
        /\ screen' = apply_events(screen, BurstEvents)
        /\ last' = Op("apply_events", Len(BurstEvents), TRUE, n, screen.cursor)
        /\ scrolls' = scrolls + n
        /\ burst' = n
        /\ UNCHANGED <<panicked, vtVars, ptyVars, appVars>>

\* Screen::scroll_view; `current + delta` is an i32 sum, which traps on overflow
\* in a build with overflow checks and wraps in one without
ScrollView ==
    \E delta \in Deltas :
        LET r == scroll_view(screen, delta)
        IN  /\ ~panicked
            /\ \/ /\ overflows_i32(screen.scroll_offset, delta)
                  /\ panicked' = TRUE
                  /\ screen' = screen
                  /\ last' = Op("scroll_view", delta, FALSE, 0, screen.cursor)
               \/ /\ MayView(r.screen)
                  /\ panicked' = panicked
                  /\ screen' = r.screen
                  /\ last' = Op("scroll_view", delta, r.ret, 0, screen.cursor)
            /\ UNCHANGED <<scrolls, burst, vtVars, ptyVars, appVars>>

\* Screen::scroll_to_bottom
ScrollToBottom ==
    /\ ~panicked
    /\ screen' = scroll_to_bottom(screen)
    /\ last' = Op("scroll_to_bottom", 0, TRUE, 0, screen.cursor)
    /\ UNCHANGED <<scrolls, burst, panicked, vtVars, ptyVars, appVars>>

\* Screen::clear
Clear ==
    /\ ~panicked
    /\ screen' = clear(screen)
    /\ last' = Op("clear", 0, TRUE, 0, screen.cursor)
    /\ UNCHANGED <<scrolls, burst, panicked, vtVars, ptyVars, appVars>>

\* Screen::resize: Err(InvalidSize) leaves the Screen alone
Resize ==
    \E size \in ResizeArgs :
        /\ ~panicked
        /\ burst = 0
        /\ screen' = IF validate_size(size) THEN resize(screen, size) ELSE screen
        /\ last' = Op("resize", size, validate_size(size), 0, screen.cursor)
        /\ UNCHANGED <<scrolls, burst, panicked, vtVars, ptyVars, appVars>>

\* Screen::new called again: Ok(screen) replaces the Screen under observation,
\* Err(InvalidSize) produces no Screen and the existing one stays
New ==
    \E size \in ResizeArgs :
        /\ ~panicked
        /\ burst = 0
        /\ screen' = IF validate_size(size) THEN new(size) ELSE screen
        /\ last' = Op("new", size, validate_size(size), 0, [col |-> 0, row |-> 0])
        /\ scrolls' = IF validate_size(size) THEN 0 ELSE scrolls
        /\ UNCHANGED <<burst, panicked, vtVars, ptyVars, appVars>>

Next ==
    \/ New
    \/ ApplyPrint
    \/ ApplyNewline
    \/ ApplyCarriageReturn
    \/ ApplyBackspace
    \/ ApplyLine
    \/ ApplyBurst
    \/ ScrollView
    \/ ScrollToBottom
    \/ Clear
    \/ Resize

Spec == Init /\ [][Next]_vars

----------------------------------------------------------------------------
(* The decoder fed a byte stream in chunks *)

InitVt ==
    /\ vt_whole \in ByteStreams
    /\ vt_prefix \in Prefixes
    /\ vt_input = vt_whole
    /\ events = vt_prefix
    /\ vt_calls = 0
    /\ \E size \in VtSizes :
          /\ validate_size(size)
          /\ size = FixtureSize => vt_whole \in FixtureStreams
          /\ screen = new(size)
          /\ last = Op("new", size, TRUE, 0, [col |-> 0, row |-> 0])
    /\ scrolls = 0
    /\ burst = 0
    /\ panicked = FALSE
    /\ os = no_os
    /\ pty = no_pty
    /\ app = no_app
    /\ chan = no_chan
    /\ hist = no_hist

\* VtParser::advance on the next n bytes of the stream
Advance ==
    \E n \in 1..Len(vt_input) :
        /\ events' = advance(SubSeq(vt_input, 1, n), events)
        /\ vt_input' = SubSeq(vt_input, n + 1, Len(vt_input))
        /\ vt_calls' = vt_calls + 1
        /\ UNCHANGED <<vt_whole, vt_prefix, screenVars, ptyVars, appVars>>

\* Screen::apply_events on a fresh Screen with everything that was decoded
ApplyDecoded ==
    LET n == scroll_events_of(screen, events)
    IN  /\ vt_input = <<>>
        /\ last.op = "new"
        /\ screen' = apply_events(screen, events)
        /\ last' = Op("apply_events", Len(events), TRUE, n, screen.cursor)
        /\ scrolls' = scrolls + n
        /\ UNCHANGED <<burst, panicked, vtVars, ptyVars, appVars>>

NextVt ==
    \/ Advance
    \/ ApplyDecoded

SpecVt == InitVt /\ [][NextVt]_vars

----------------------------------------------------------------------------
(* A session spawned, resized and dropped, any OS step of spawn failing *)

\* sizes passed to Pty::spawn and Pty::resize: 0 is invalid, 40000 does not fit
\* an i16
PtyDims == {0, 1, 2, 40000}
PtySizes == [cols : PtyDims, rows : PtyDims]

\* which OS step of a spawn attempt fails
Failures == {SpawnSteps[i] : i \in 1..Len(SpawnSteps)} \cup {"none"}

InitPty ==
    /\ os = no_os
    /\ pty = no_pty
    /\ app = no_app
    /\ chan = no_chan
    /\ hist = no_hist
    /\ screen = new([cols |-> 1, rows |-> 1])
    /\ last = Op("new", [cols |-> 1, rows |-> 1], TRUE, 0, [col |-> 0, row |-> 0])
    /\ scrolls = 0
    /\ burst = 0
    /\ panicked = FALSE
    /\ vt_input = <<>>
    /\ events = <<>>
    /\ vt_whole = <<>>
    /\ vt_prefix = <<>>
    /\ vt_calls = 0

\* Pty::spawn: Ok(Pty) gives the session; Err gives no Pty value. One attempt
\* reaches the OS; an attempt refused for its size may be followed by another
PtySpawn ==
    \E size \in PtySizes : \E fail \in Failures :
        LET r == pty_spawn(os, size, fail)
        IN  /\ pty.state = "none"
            /\ os' = r.os
            /\ pty' = [pty EXCEPT
                         !.state = IF r.ok THEN "active"
                                   ELSE IF r.err = "InvalidSize" THEN "none"
                                   ELSE "failed",
                         !.op = "spawn", !.arg = size, !.ok = r.ok,
                         !.err = r.err, !.at = r.at, !.before = os]
            /\ UNCHANGED <<screenVars, vtVars, appVars>>

\* Pty::resize on the session
PtyResize ==
    \E size \in PtySizes : \E os_ok \in BOOLEAN :
        LET r == pty_resize(os, size, os_ok)
        IN  /\ pty.state = "active"
            /\ pty.resizes < MaxResizes
            /\ os' = r.os
            /\ pty' = [pty EXCEPT
                         !.op = "resize", !.arg = size, !.ok = r.ok,
                         !.err = r.err, !.at = "none", !.before = os,
                         !.resizes = @ + 1]
            /\ UNCHANGED <<screenVars, vtVars, appVars>>

\* the Pty value dropped: session teardown
PtyDrop ==
    /\ pty.state = "active"
    /\ os' = pty_drop(os)
    /\ pty' = [pty EXCEPT !.state = "dropped", !.op = "drop", !.ok = TRUE,
                          !.err = "none", !.at = "none", !.before = os]
    /\ UNCHANGED <<screenVars, vtVars, appVars>>

NextPty ==
    \/ PtySpawn
    \/ PtyResize
    \/ PtyDrop

SpecPty == InitPty /\ [][NextPty]_vars

----------------------------------------------------------------------------
(* The interactive loop with its reader thread *)

\* window sizes in physical pixels: no width, one and two cells wide, and a
\* width whose column count does not fit u16; one cell high. The grids stay
\* within what COORD's i16 holds, so coord() changes no dimension here
WindowSizes == [width : {0, 34, 44, 655384}, height : {44}]

\* what the child writes to its output before it ends
ChildStreams == {<<65, 10, 66>>}

\* a child that writes one character before it ends: the sessions of the
\* keyboard and font prompt explorations
ShortStreams == {<<66>>}

\* the steps of Pty::spawn that fail in a run of the loop
StartFailures == {"none", "CreateProcessW"}

\* time between two events of the loop, in ms
Delays == {250, 500}

\* results of pty.is_running()
Probes == {"running", "not_running", "error"}

\* the state AppState::new returns for a window of size px. font_found: whether
\* Cascadia Code was loaded; without it the prompt is shown and no session is
\* started. When start_pty fails, new fails and the loop never runs
app_new(px, font_found, fail, clone_ok, child) ==
    LET w0 == [screen |-> new(screen_size_from_pixels(px)), os |-> no_os,
               pty |-> no_pty, app |-> no_app, chan |-> no_chan,
               hist |-> no_hist]
        r == start_pty(w0, fail, clone_ok, child)
    IN  IF ~font_found
        THEN show_system_message([w0 EXCEPT !.app.font_prompt = TRUE],
                                 FONT_PROMPT_TEXT)
        ELSE IF r.ok THEN r.w
        ELSE [r.w EXCEPT !.app.exited = TRUE]

\* the variables take the values of a World record
Starts(w) ==
    /\ screen = w.screen
    /\ os = w.os
    /\ pty = w.pty
    /\ app = w.app
    /\ chan = w.chan
    /\ hist = w.hist
    /\ last = Op("new", w.screen.size, TRUE, 0, [col |-> 0, row |-> 0])
    /\ scrolls = 0
    /\ burst = 0
    /\ panicked = FALSE
    /\ vt_input = <<>>
    /\ events = <<>>
    /\ vt_whole = <<>>
    /\ vt_prefix = <<>>
    /\ vt_calls = 0

\* AppState::new for a window one or two cells wide, Cascadia Code found: the
\* session is started inside new
InitApp ==
    \E px \in WindowSizes : \E fail \in StartFailures :
      \E clone_ok \in BOOLEAN : \E child \in ChildStreams :
        /\ px.width \in {34, 44}
        /\ Starts(app_new(px, TRUE, fail, clone_ok, child))

\* the loop's thread is between two handlers and the loop has not exited
Idle == ~app.exited /\ app.pc = "idle"

\* the World a handler starts from, its history cleared of what the handler
\* before it did
Entered ==
    [World EXCEPT !.hist = [@ EXCEPT !.probe = "none", !.resize = "none",
                                     !.input = no_input]]

\* the handler returns with the World w
Becomes(w) ==
    /\ screen' = w.screen
    /\ os' = w.os
    /\ pty' = w.pty
    /\ app' = w.app
    /\ chan' = w.chan
    /\ hist' = w.hist
    /\ UNCHANGED <<last, scrolls, burst, panicked, vtVars>>

\* the key events: characters typed, named keys, and Control with a letter
TextKey(text) ==
    [pressed |-> TRUE, ctrl |-> FALSE, named |-> "none", ch |-> text[1],
     text |-> text]
NamedKey(name, text) ==
    [pressed |-> TRUE, ctrl |-> FALSE, named |-> name, ch |-> 0, text |-> text]
CtrlKey(ch) ==
    [pressed |-> TRUE, ctrl |-> TRUE, named |-> "none", ch |-> ch, text |-> <<>>]

\* 'n' and 'y': the answers to the font prompt
AnswerNo == TextKey(<<110>>)
AnswerYes == TextKey(<<121>>)

\* the keys of the font prompt exploration: the two answers, Enter and Ctrl+D;
\* 'y' is typed while the prompt stands, the others also into the session
PromptKeys == {AnswerNo, AnswerYes, NamedKey("Enter", <<13>>), CtrlKey(100)}

\* the keys of the keyboard exploration: " Exit" in one text, Enter,
\* Backspace, Tab, Ctrl+D and Ctrl+C
SessionKeys ==
    {TextKey(<<32, 69, 120, 105, 116>>),
     NamedKey("Enter", <<13>>), NamedKey("Backspace", <<8>>),
     NamedKey("Tab", <<9>>), CtrlKey(100), CtrlKey(99)}

\* the key of an event, for the history
KeyTag(ev) ==
    IF ev.ctrl THEN "Ctrl" ELSE IF ev.named /= "none" THEN ev.named ELSE "Text"

\* WindowEvent::KeyboardInput with the event ev. write_ok: whether a write to
\* the child's input succeeds; fail, clone_ok, child: as for start_pty
KeyboardInput(ev) ==
    \E write_ok \in BOOLEAN : \E fail \in StartFailures :
      \E clone_ok \in BOOLEAN : \E child \in ShortStreams :
        LET w0 == [Entered EXCEPT !.hist.input.key = KeyTag(ev),
                                  !.hist.input.closed = app.pty_closed]
        IN  /\ Idle
            /\ Len(app.input_buffer) + Len(filtered(ev.text)) <= MaxInput
            /\ app.font_prompt \/ (fail = "none" /\ clone_ok)
            /\ hist.downloads < MaxDownloads \/ ~app.font_prompt
                   \/ font_choice(ev.text) /= "yes"
            /\ Becomes(keyboard_input(w0, ev, write_ok, fail, clone_ok, child))

\* WindowEvent::Resized: AppState::resize
WindowResize ==
    \E px \in WindowSizes : \E os_ok \in BOOLEAN :
        LET has_pty == pty.state = "active"
            r == app_resize(screen, os, has_pty, px, os_ok)
            same == screen_size_from_pixels(px) = screen.size
        IN  /\ Idle
            /\ pty.resizes < MaxAppResizes
            /\ Becomes([Entered EXCEPT
                          !.screen = r.screen,
                          !.os = r.os,
                          !.pty.resizes = IF r.called THEN @ + 1 ELSE @,
                          !.hist.resize = IF same THEN "same" ELSE "none",
                          !.hist.resized = @ \/ (has_pty /\ r.screen /= screen),
                          !.hist.os_refused = @ \/ r.refused])

\* WindowEvent::MouseWheel with a line delta
MouseWheel ==
    \E lines \in {-1, 0, 1} :
        LET scrolled == IF lines /= 0 THEN scroll_view(screen, lines).screen
                        ELSE screen
        IN  /\ Idle
            /\ MayView(scrolled)
            /\ Becomes([Entered EXCEPT !.screen = scrolled])

\* WindowEvent::CloseRequested
CloseRequested ==
    /\ Idle
    /\ Becomes(exit_loop(Entered))

\* time passing between two events of the loop
Tick ==
    \E ms \in Delays :
        /\ ~app.exited
        /\ app.elapsed < STATUS_INTERVAL_MS
        /\ app' = [app EXCEPT !.elapsed = Min(@ + ms, STATUS_INTERVAL_MS)]
        /\ hist' = [hist EXCEPT !.since = Min(@ + ms, STATUS_INTERVAL_MS),
                                 !.input = no_input]
        /\ UNCHANGED <<screenVars, vtVars, ptyVars, chan>>

\* Event::AboutToWait: check_pty_status, drain_font_download, then the loop
\* exits if exit was asked for or the session is closed. (update_cursor_blink
\* changes only what is drawn.) The inputs that no step of the handler reads
\* are held at one value
AboutToWait ==
    \E probe \in Probes : \E apply_ok \in BOOLEAN : \E fail \in StartFailures :
      \E clone_ok \in BOOLEAN : \E child \in ShortStreams :
        LET has_pty == pty.state = "active"
            probed == probes_now(app, has_pty)
            early == has_pty /\ hist.since < STATUS_INTERVAL_MS
            a == check_pty_status(app, has_pty, probe)
            checked ==
                [Entered EXCEPT
                   !.app = a,
                   !.hist = [@ EXCEPT
                      !.probe = IF probed THEN probe
                                ELSE IF early THEN "early" ELSE "none",
                      !.probes = IF probed
                                 THEN SubSeq(Append(@, probe),
                                             Max(Len(@), 1), Len(@) + 1)
                                 ELSE @,
                      !.gap = IF probed THEN hist.since ELSE @,
                      !.since = IF probed THEN 0 ELSE @,
                      !.skip_changed = @ \/ (early /\ a /= app),
                      !.closed_by = IF a.pty_closed /\ ~app.pty_closed
                                    THEN "liveness" ELSE @]]
            drained == drain_font_download(checked, apply_ok, fail, clone_ok, child)
            exits == loop_exits(drained.app)
            left == [drained EXCEPT
                       !.hist.missed_exit = @ \/ (app.pty_closed /\ ~exits)]
        IN  /\ Idle
            /\ probed \/ probe = "running"
            /\ (chan.font_rx /\ chan.font_queue /= <<>>)
                   \/ (apply_ok /\ fail = "none" /\ clone_ok)
            /\ Becomes(IF exits THEN exit_loop(left) ELSE left)

\* Event RedrawRequested: AppState::render enters drain_pty
Redraw ==
    /\ Idle
    /\ Becomes([Entered EXCEPT !.app.pc = "drain"])

\* drain_pty: one turn of `while let Ok(message) = rx.try_recv()`
DrainRecv ==
    LET got == try_recv(chan.queue)
        taken == [Entered EXCEPT !.chan.queue = got.rest]
    IN  /\ app.pc = "drain"
        /\ chan.rx
        /\ chan.queue /= <<>>
        /\ IF got.msg[1] = "Data"
           THEN Becomes([taken EXCEPT
                           !.screen = drain_data(screen, got.msg[2]),
                           !.hist.drained = Append(@, got.msg[2])])
           ELSE Becomes([taken EXCEPT
                           !.app.pty_closed = TRUE,
                           !.app.exit_checks_failed = 0,
                           !.hist.closed_seen = TRUE,
                           !.hist.closed_by = IF app.pty_closed THEN @
                                              ELSE "message"])

\* drain_pty: try_recv finds nothing (or there is no Receiver); render returns
DrainEnd ==
    /\ app.pc = "drain"
    /\ ~chan.rx \/ chan.queue = <<>>
    /\ Becomes([Entered EXCEPT !.app.pc = "idle"])

\* the reader thread: one turn of its loop. Ok(n) with the next n bytes of the
\* child's output, Ok(0) once the child has ended its output, or Err
ReaderRead ==
    \E result \in {"data", "eof", "error"} :
      \E n \in 1..Max(Len(chan.child), 1) :
        LET bytes == SubSeq(chan.child, 1, n)
            message == reader_message(result, bytes)
            sent == chan.rx /\ message[1] /= "None"
            rest == IF result = "data"
                    THEN SubSeq(chan.child, n + 1, Len(chan.child))
                    ELSE chan.child
        IN  /\ chan.reader = "running"
            /\ result = "data" => chan.child /= <<>>
            /\ result = "eof" => chan.child = <<>>
            /\ result /= "data" => n = 1
            /\ chan' = [chan EXCEPT
                          !.child = rest,
                          !.queue = IF sent THEN Append(@, message) ELSE @,
                          !.reader = IF result = "data" /\ sent
                                     THEN "running" ELSE "done"]
            /\ hist' = [hist EXCEPT
                          !.read = IF result = "data" /\ sent
                                   THEN Append(@, bytes) ELSE @,
                          !.sends = Append(@, [msg |-> message[1], ok |-> sent,
                                               after |-> result]),
                          !.input = no_input]
            /\ UNCHANGED <<screenVars, vtVars, ptyVars, app>>

\* the font download thread: it sends Completed(Ok) or Completed(Err) and ends
FontDownload ==
    \E result \in {"Ok", "Err"} :
        /\ chan.font_thread = "running"
        /\ chan' = [chan EXCEPT
                      !.font_thread = "done",
                      !.font_queue = IF chan.font_rx THEN Append(@, result) ELSE @]
        /\ hist' = [hist EXCEPT !.input = no_input]
        /\ UNCHANGED <<screenVars, vtVars, ptyVars, app>>

\* the session, its reader and the window
NextApp ==
    \/ WindowResize
    \/ Tick
    \/ AboutToWait
    \/ Redraw
    \/ DrainRecv
    \/ DrainEnd
    \/ ReaderRead

SpecApp == InitApp /\ [][NextApp]_vars

----------------------------------------------------------------------------
(* The interactive loop with its keyboard and mouse wheel *)

\* AppState::new for a window one cell wide, Cascadia Code found
InitUi ==
    \E px \in WindowSizes : \E fail \in StartFailures :
      \E clone_ok \in BOOLEAN : \E child \in ShortStreams :
        /\ px.width = 34
        /\ Starts(app_new(px, TRUE, fail, clone_ok, child))

NextUi ==
    \/ \E ev \in SessionKeys : KeyboardInput(ev)
    \/ MouseWheel
    \/ CloseRequested
    \/ Tick
    \/ AboutToWait
    \/ Redraw
    \/ DrainRecv
    \/ DrainEnd
    \/ ReaderRead

SpecUi == InitUi /\ [][NextUi]_vars

----------------------------------------------------------------------------
(* The interactive loop with its font prompt and mouse wheel *)

\* AppState::new for a window one cell wide, Cascadia Code not found
InitFont ==
    \E px \in WindowSizes : \E child \in ShortStreams :
        /\ px.width = 34
        /\ Starts(app_new(px, FALSE, "none", TRUE, child))

NextFont ==
    \/ \E ev \in PromptKeys :
          /\ ev = AnswerYes => app.font_prompt
          /\ KeyboardInput(ev)
    \/ MouseWheel
    \/ FontDownload
    \/ AboutToWait
    \/ CloseRequested

SpecFont == InitFont /\ [][NextFont]_vars

----------------------------------------------------------------------------
(* The grid size of a window *)

\* window widths and heights in physical pixels: around the padding, around
\* one and two cells, around the first sizes whose cell count does not fit
\* u16, and the largest value TLC's integers hold
PixelWidths ==
    {0, 23, 24, 33, 34, 43, 44, 824, 655383, 655384, 655394, I32_MAX}
PixelHeights ==
    {0, 23, 24, 43, 44, 63, 64, 624, 1310743, 1310744, 1310764, I32_MAX}

\* a window of some size, before its grid size is asked for
InitPixels ==
    \E width \in PixelWidths : \E height \in PixelHeights :
        LET px == [width |-> width, height |-> height]
        IN  Starts([screen |-> new([cols |-> 1, rows |-> 1]), os |-> no_os,
                    pty |-> no_pty, app |-> no_app, chan |-> no_chan,
                    hist |-> [no_hist EXCEPT !.px = px]])

\* screen_size_from_pixels for the window's size
SizeFromPixels ==
    /\ ~hist.sized
    /\ hist' = [hist EXCEPT !.grid = screen_size_from_pixels(hist.px),
                             !.sized = TRUE]
    /\ UNCHANGED <<screenVars, vtVars, ptyVars, app, chan>>

NextPixels == SizeFromPixels

SpecPixels == InitPixels /\ [][NextPixels]_vars

----------------------------------------------------------------------------
(* Properties *)

\* row r (0-based) of the grid of Screen s
GridRow(s, r) == SubSeq(s.cells, r * s.size.cols + 1, (r + 1) * s.size.cols)

\* C1: in every reachable state the cursor lies inside the grid:
\* cursor.col < cols and cursor.row < rows.
C1_CursorInGrid ==
    /\ screen.cursor.col < screen.size.cols
    /\ screen.cursor.row < screen.size.rows

\* a resize to 1x1 of a Screen whose cursor was at column >= 1 and row >= 1
C1_Witness ==
    /\ last.op = "resize" /\ last.ret
    /\ screen.size = [cols |-> 1, rows |-> 1]
    /\ last.from.col >= 1 /\ last.from.row >= 1

\* C2: in every reachable state 0 <= scroll_offset <= scrollback length.
C2_OffsetInRange ==
    /\ 0 <= screen.scroll_offset
    /\ screen.scroll_offset <= Len(screen.scrollback)

\* a scroll at the cap (the oldest row evicted) with the view scrolled back
C2_Witness ==
    /\ last.scrolled = 1
    /\ scrolls > MAX_SCROLLBACK_LINES
    /\ screen.scroll_offset > 0

\* C3: the Scrollback holds min(n, 1000) rows after n scroll events: one more
\* row per scroll event below the cap, never more than 1000, and exactly 1000
\* after 1001 scroll events.
C3_ScrollbackCap ==
    /\ Len(screen.scrollback) <= 1000
    /\ Len(screen.scrollback) = Min(scrolls, 1000)

\* the state after the 1001st scroll event
C3_Witness ==
    /\ scrolls = 1001
    /\ last.scrolled = 1
    /\ Len(screen.scrollback) = 1000

\* the bytes of the stream that advance has consumed so far
Consumed == SubSeq(vt_whole, 1, Len(vt_whole) - Len(vt_input))

\* the bytes the decoder's table maps to an operation, and that operation
EmitsOp(byte) == byte \in {10, 13, 8} \/ (byte >= 32 /\ byte <= 126)
OpOf(byte) ==
    CASE byte = 10 -> <<"Newline">>
      [] byte = 13 -> <<"CarriageReturn">>
      [] byte = 8 -> <<"Backspace">>
      [] OTHER -> <<"Print", byte>>

\* C4: after advance has consumed a byte sequence, the output is what it was
\* before, followed by one operation for each consumed byte that is 0x0A, 0x0D,
\* 0x08 or in 0x20..0x7E, in input order, and nothing for any other byte.
C4_ByteTable ==
    LET emitting == SelectSeq(Consumed, EmitsOp)
        n == Len(vt_prefix)
    IN  /\ Len(events) = n + Len(emitting)
        /\ SubSeq(events, 1, n) = vt_prefix
        /\ \A i \in 1..Len(emitting) : events[n + i] = OpOf(emitting[i])

\* a stream with an ignored byte, a control byte and both ends of the printable
\* range has been consumed into an output that was not empty
C4_Witness ==
    /\ vt_input = <<>>
    /\ vt_prefix /= <<>>
    /\ vt_whole = <<127, 13, 126>>

\* C5: however the byte sequence is cut into chunks, once every chunk has been
\* given to advance the output equals that of one advance call on the whole.
C5_ChunkingIrrelevant ==
    vt_input = <<>> => events = advance(vt_whole, vt_prefix)

\* a stream holding CR LF was given to advance in two chunks, cut between them
C5_Witness ==
    /\ vt_input = <<>>
    /\ vt_calls = 2
    /\ vt_whole = <<13, 10>>

\* C7 (relation): t is s after one Newline. Off the last row only the cursor row
\* grows; on the last row the old row 0 is appended to the Scrollback (the oldest
\* row leaving it at the cap), every row moves up one, the last row is blank and
\* the cursor stays where it was.
LineFed(s, t) ==
    LET rows == s.size.rows
    IN  IF s.cursor.row < rows - 1
        THEN t = [s EXCEPT !.cursor.row = s.cursor.row + 1]
        ELSE /\ t.size = s.size
             /\ t.cursor = s.cursor
             /\ t.scrollback =
                    (IF Len(s.scrollback) >= 1000 THEN Tail(s.scrollback) ELSE s.scrollback)
                    \o <<GridRow(s, 0)>>
             /\ Len(t.cells) = Len(s.cells)
             /\ \A i \in 0..(rows - 2) : GridRow(t, i) = GridRow(s, i + 1)
             /\ GridRow(t, rows - 1) = [c \in 1..s.size.cols |-> SPACE]

\* C6: a Print of ch with the cursor at (c, r) writes ch into cell (c, r) and no
\* other cell; left of the last column the cursor moves to (c+1, r) and nothing
\* else changes; in the last column the cursor column becomes 0 and exactly one
\* Newline follows.
C6_PrintChar ==
    [][last'.op = "Print" =>
        LET c == screen.cursor.col
            r == screen.cursor.row
            cols == screen.size.cols
            written == [screen.cells EXCEPT ![r * cols + c + 1] = last'.arg[2]]
        IN  IF c < cols - 1
            THEN /\ screen' = [screen EXCEPT !.cells = written, !.cursor.col = c + 1]
                 /\ scrolls' = scrolls
            ELSE /\ LineFed([screen EXCEPT !.cells = written, !.cursor.col = 0], screen')
                 /\ scrolls' - scrolls <= 1
    ]_vars

\* a Print in the last column of the last row of a 2-column grid: the character
\* is written, the line wraps and the grid scrolls
C6_Witness ==
    /\ last.op = "Print"
    /\ last.from = [col |-> 1, row |-> screen.size.rows - 1]
    /\ screen.size.cols = 2
    /\ last.scrolled = 1

\* C7: Newline on a row above the last only increments the cursor row; on the
\* last row it scrolls: old row 0 appended to the Scrollback, rows moved up,
\* last row blanked, cursor row and column kept.
C7_Newline ==
    [][last'.op = "Newline" =>
        /\ LineFed(screen, screen')
        /\ screen.cursor.row < screen.size.rows - 1 => scrolls' = scrolls
    ]_vars

\* a Newline on the last row of a 2-row grid, away from column 0, at the cap,
\* that scrolled a row with a character in it into the Scrollback
C7_Witness ==
    /\ last.op = "Newline"
    /\ last.scrolled = 1
    /\ last.from.col > 0
    /\ screen.size.rows = 2
    /\ scrolls > MAX_SCROLLBACK_LINES
    /\ \E c \in 1..screen.size.cols :
          screen.scrollback[Len(screen.scrollback)][c] /= SPACE

\* C8: a scroll of the grid while the view is scrolled back leaves the rendered
\* rows as they were, as long as every rendered row is still retained (below
\* the cap: always; at the cap: unless the view showed the evicted oldest row).
C8_ViewAnchored ==
    [][(/\ last'.scrolled = 1
        /\ last'.op \in {"Print", "Newline"}
        /\ screen.scroll_offset > 0
        /\ (Len(screen.scrollback) >= MAX_SCROLLBACK_LINES
              => screen.scroll_offset < Len(screen.scrollback)))
       => render_chars(screen') = render_chars(screen)
    ]_vars

\* C9: Backspace with the cursor at column c > 0 moves it to column c-1 of the
\* same row and blanks that cell, nothing else; at column 0 it changes nothing.
C9_Backspace ==
    [][last'.op = "Backspace" =>
        LET c == screen.cursor.col
            r == screen.cursor.row
        IN  /\ scrolls' = scrolls
            /\ IF c > 0
               THEN screen' = [screen EXCEPT
                                 !.cursor.col = c - 1,
                                 !.cells[r * screen.size.cols + (c - 1) + 1] = SPACE]
               ELSE screen' = screen
    ]_vars

\* a Backspace at column 0 of the second row, the last cell of the first row
\* holding a character
C9_Witness ==
    /\ last.op = "Backspace"
    /\ last.from = [col |-> 0, row |-> 1]
    /\ screen.cells[screen.size.cols] /= SPACE

\* C10: CarriageReturn sets the cursor column to 0 and changes nothing else.
C10_CarriageReturn ==
    [][last'.op = "CarriageReturn" =>
        /\ screen' = [screen EXCEPT !.cursor.col = 0]
        /\ scrolls' = scrolls
    ]_vars

\* a CarriageReturn from column 1 of the second row, with rows in the
\* Scrollback and the view scrolled back
C10_Witness ==
    /\ last.op = "CarriageReturn"
    /\ last.from = [col |-> 1, row |-> 1]
    /\ screen.scroll_offset > 0
    /\ \E i \in 1..Len(screen.cells) : screen.cells[i] /= SPACE

\* C11: in every reachable state, and so after every successful resize with any
\* scroll offset and any Scrollback contents, render_chars returns exactly
\* cols*rows characters for the current size.
C11_RenderLength ==
    Len(render_chars(screen)) = screen.size.cols * screen.size.rows

\* a resize that widened the grid while the view was scrolled back onto a
\* Scrollback row holding a character
C11_Witness ==
    /\ last.op = "resize" /\ last.ret
    /\ last.size.cols < screen.size.cols
    /\ screen.scroll_offset > 0
    /\ \E k \in 1..Len(screen.scrollback) : screen.scrollback[k][1] /= SPACE

\* row j (0-based) of the Scrollback rows, oldest first, followed by the grid rows
HistoryRow(s, j) ==
    IF j < Len(s.scrollback) THEN At(s.scrollback, j)
    ELSE GridRow(s, j - Len(s.scrollback))

\* n consecutive rows of that sequence from position j, row-major
RECURSIVE HistoryRows(_, _, _)
HistoryRows(s, j, n) ==
    IF n = 0 THEN <<>> ELSE HistoryRow(s, j) \o HistoryRows(s, j + 1, n - 1)

\* C12: with scroll offset k and L Scrollback rows, render_chars returns the rows
\* at positions L-k .. L-k+rows-1 of the Scrollback rows followed by the grid
\* rows; with k = 0 that is the live grid, and one more unit of offset moves the
\* window one row further into history.
C12_RenderWindow ==
    LET L == Len(screen.scrollback)
        k == screen.scroll_offset
        rows == screen.size.rows
        further == [screen EXCEPT !.scroll_offset = k + 1]
    IN  /\ render_chars(screen) = HistoryRows(screen, L - k, rows)
        /\ k = 0 => render_chars(screen) = screen.cells
        /\ k < L => render_chars(further) = HistoryRows(screen, L - k - 1, rows)

\* a 2-row view scrolled back one row, so that it shows the newest Scrollback
\* row, which holds a character, above the first grid row, with older rows left
C12_Witness ==
    /\ screen.size.rows = 2
    /\ screen.scroll_offset = 1
    /\ Len(screen.scrollback) >= 2
    /\ screen.scrollback[Len(screen.scrollback)][1] /= SPACE
    /\ last.op = "scroll_view" /\ last.ret

\* cell (c, r) of the grid of Screen s
CellAt(s, c, r) == s.cells[r * s.size.cols + c + 1]

\* C13: a successful resize from (oc, or) to (nc, nr) yields a grid of nc x nr
\* cells in which cell (c, r) is the old cell (c, r) for c < min(oc, nc) and
\* r < min(or, nr) and a space everywhere else (no reflow), with the cursor and
\* the scroll offset clamped into the new bounds.
C13_ResizeOverlap ==
    [][(last'.op = "resize" /\ last'.ret) =>
        LET oc == screen.size.cols
            or == screen.size.rows
            nc == last'.arg.cols
            nr == last'.arg.rows
        IN  /\ screen'.size = last'.arg
            /\ Len(screen'.cells) = nc * nr
            /\ \A c \in 0..(nc - 1) : \A r \in 0..(nr - 1) :
                  CellAt(screen', c, r) =
                      IF c < Min(oc, nc) /\ r < Min(or, nr)
                      THEN CellAt(screen, c, r) ELSE SPACE
            /\ screen'.cursor = [col |-> Min(screen.cursor.col, nc - 1),
                                 row |-> Min(screen.cursor.row, nr - 1)]
            /\ screen'.scroll_offset =
                  Min(screen.scroll_offset, Len(screen'.scrollback))
    ]_vars

\* a resize from 2 columns by 1 row to 1 column by 2 rows (narrower and taller)
\* with a character in the kept cell, the cursor in the lost column and the
\* view scrolled back
C13_Witness ==
    /\ last.op = "resize" /\ last.ret
    /\ last.size = [cols |-> 2, rows |-> 1]
    /\ screen.size = [cols |-> 1, rows |-> 2]
    /\ last.from.col = 1
    /\ screen.cells[1] /= SPACE
    /\ screen.scroll_offset > 0

\* C14: Screen::resize and Screen::new fail (with InvalidSize, the only error)
\* exactly when cols = 0 or rows = 0, and a failed resize leaves size, cells,
\* cursor, Scrollback and scroll offset unchanged.
C14_InvalidSize ==
    [][(last'.op \in {"resize", "new"}) =>
        /\ last'.ret <=> ~(last'.arg.cols = 0 \/ last'.arg.rows = 0)
        /\ (last'.op = "resize" /\ ~last'.ret) =>
              /\ screen'.size = screen.size
              /\ screen'.cells = screen.cells
              /\ screen'.cursor = screen.cursor
              /\ screen'.scrollback = screen.scrollback
              /\ screen'.scroll_offset = screen.scroll_offset
    ]_vars

\* a resize to 2 columns by 0 rows was refused on a Screen with a character in
\* the grid, rows in the Scrollback and the view scrolled back
C14_Witness ==
    /\ last.op = "resize" /\ ~last.ret
    /\ last.arg = [cols |-> 2, rows |-> 0]
    /\ screen.scroll_offset > 0
    /\ \E i \in 1..Len(screen.cells) : screen.cells[i] /= SPACE

\* the fixture has run: the bytes of "AB\r\nC" were decoded into an empty output
\* and the operations applied to a fresh 80x24 grid
FixtureRan ==
    /\ vt_whole = FixtureBytes
    /\ vt_prefix = <<>>
    /\ screen.size = FixtureSize
    /\ last.op = "apply_events"

\* C15 (as stated): after the fixture, row 0 of the grid is 'C' followed by 79
\* spaces.
C15_FixtureRow0 ==
    FixtureRan => GridRow(screen, 0) = <<67>> \o blank(79)

\* C15 (amended): after the fixture, row 1 of the grid is 'C' followed by 79
\* spaces, and row 0 is 'A', 'B' followed by 78 spaces.
C15_FixtureRows ==
    FixtureRan =>
        /\ GridRow(screen, 1) = <<67>> \o blank(79)
        /\ GridRow(screen, 0) = <<65, 66>> \o blank(78)

\* the fixture has run, its bytes decoded in one call
C15_Witness == FixtureRan /\ vt_calls = 1

\* C16: after the fixture the cursor is at column 1 of row 1.
C16_FixtureCursor ==
    FixtureRan => screen.cursor = [col |-> 1, row |-> 1]

\* the fixture has run, its bytes decoded one byte per call
C16_Witness == FixtureRan /\ vt_calls = Len(FixtureBytes)

\* rows+1 line feeds were decoded into an empty output and the operations
\* applied to a freshly created grid
LineFeedsRan ==
    /\ vt_whole = LineFeeds(screen.size.rows + 1)
    /\ vt_prefix = <<>>
    /\ last.op = "apply_events"

\* C18 (as stated): rows+1 Newlines on a freshly created grid move exactly one
\* row into the Scrollback and leave the grid blank; 25 Newlines on a 24-row
\* grid give a Scrollback of length 1.
C18_OneRowScrolled ==
    LineFeedsRan =>
        /\ Len(screen.scrollback) = 1
        /\ screen.cells = blank(screen.size.cols * screen.size.rows)

\* C18 (amended): rows+1 Newlines on a freshly created grid move exactly two
\* rows into the Scrollback and leave the grid blank; 25 Newlines on a 24-row
\* grid give a Scrollback of length 2.
C18_TwoRowsScrolled ==
    LineFeedsRan =>
        /\ Len(screen.scrollback) = 2
        /\ scrolls = 2
        /\ screen.cells = blank(screen.size.cols * screen.size.rows)

\* 25 line feeds were applied to the 24-row grid
C18_Witness ==
    /\ LineFeedsRan
    /\ screen.size = FixtureSize
    /\ Len(vt_whole) = 25

\* C17 (as stated): from the cursor at (0, r), for every row r, exactly cols
\* Print operations leave the cursor at (0, r+1).
C17_WrapNextRow ==
    [][last'.op = "print_line" =>
        screen'.cursor = [col |-> 0, row |-> screen.cursor.row + 1]
    ]_vars

\* C17 (amended): from the cursor at (0, r), exactly cols Print operations leave
\* the cursor at (0, r+1) when r is not the last row; on the last row the grid
\* scrolls up one row instead and the cursor is left at (0, r).
C17_WrapOrScroll ==
    [][last'.op = "print_line" =>
        LET r == screen.cursor.row
        IN  IF r < screen.size.rows - 1
            THEN /\ screen'.cursor = [col |-> 0, row |-> r + 1]
                 /\ scrolls' = scrolls
            ELSE /\ screen'.cursor = [col |-> 0, row |-> r]
                 /\ scrolls' = scrolls + 1
    ]_vars

\* a full line of 2 characters was printed on the last row of a 2-row grid
C17_Witness ==
    /\ last.op = "print_line"
    /\ Len(last.arg) = 2
    /\ last.from = [col |-> 0, row |-> 1]
    /\ screen.size.rows = 2
    /\ last.scrolled = 1

\* C19: scroll_view(delta) returns true exactly when the scroll offset after the
\* call differs from the offset before it; with the offset at 0 and delta <= 0,
\* or at the Scrollback length and delta >= 0, it returns false and leaves the
\* offset and all other Screen state unchanged.
C19_ScrollViewResult ==
    [][last'.op = "scroll_view" =>
        LET delta == last'.arg
            k == screen.scroll_offset
            L == Len(screen.scrollback)
        IN  /\ last'.ret <=> screen'.scroll_offset /= k
            /\ (k = 0 /\ delta <= 0) => (~last'.ret /\ screen' = screen)
            /\ (k = L /\ delta >= 0) => (~last'.ret /\ screen' = screen)
    ]_vars

\* the events an operation recorded in `last` applied to the Screen
EventsOf(l) ==
    CASE l.op \in {"Print", "Newline", "CarriageReturn", "Backspace"} -> <<l.arg>>
      [] l.op = "print_line" -> l.arg
      [] l.op = "apply_events" -> BurstEvents
      [] OTHER -> <<>>

\* the rows scrolled off the top of the grid while the events evs are applied to
\* Screen s, oldest first, each as row 0 stood at the moment of its scroll event
\* (for a Print that wraps on the last row: with the printed character in place)
RECURSIVE ShedRows(_, _)
ShedRows(s, evs) ==
    IF evs = <<>> THEN <<>>
    ELSE IF Len(evs) = 1
    THEN LET e == evs[1]
             at == IF e[1] = "Print"
                   THEN [s EXCEPT !.cells[s.cursor.row * s.size.cols + s.cursor.col + 1] = e[2]]
                   ELSE s
         IN  IF scroll_events(s, e) = 1 THEN <<GridRow(at, 0)>> ELSE <<>>
    ELSE LET half == Len(evs) \div 2
             front == SubSeq(evs, 1, half)
             mid == apply_events(s, front)
         IN  IF mid.scroll_offset >= 0
             THEN ShedRows(s, front) \o ShedRows(mid, SubSeq(evs, half + 1, Len(evs)))
             ELSE <<>>

\* the last n elements of a sequence
LastRows(seq, n) == SubSeq(seq, Len(seq) - n + 1, Len(seq))

\* C20: without resize, the Scrollback is, oldest first, the most recent
\* min(n, 1000) rows scrolled off the top of the grid after n scroll events, each
\* with the cells row 0 had when it was scrolled off. Stated step by step: a new
\* Screen has none, and every operation other than resize leaves the Scrollback
\* as the last min(n, 1000) rows of what it was followed by the rows the
\* operation scrolled off.
C20_ScrollbackContents ==
    [][/\ (last'.op = "new" /\ last'.ret) =>
            (screen'.scrollback = <<>> /\ scrolls' = 0)
       /\ (last'.op \notin {"new", "resize"}) =>
            LET shed == ShedRows(screen, EventsOf(last'))
                seen == screen.scrollback \o shed
            IN  /\ scrolls' = scrolls + Len(shed)
                /\ Len(screen.scrollback) = Min(scrolls, 1000)
                /\ screen'.scrollback =
                      IF shed = <<>> THEN screen.scrollback
                      ELSE LastRows(seen, Min(scrolls', 1000))
    ]_vars

\* a Print wrapped on the last row with the Scrollback full: the row holding the
\* printed character is now the newest Scrollback row and the oldest row is gone
C20_Witness ==
    /\ last.op = "Print"
    /\ last.scrolled = 1
    /\ scrolls = MAX_SCROLLBACK_LINES + 2
    /\ Len(screen.scrollback) = MAX_SCROLLBACK_LINES
    /\ screen.scrollback[MAX_SCROLLBACK_LINES][screen.size.cols] /= SPACE

\* the OS calls the last operation on the session made
CallsMade == SubSeq(os.calls, Len(pty.before.calls) + 1, Len(os.calls))

\* C21: Pty::spawn and Pty::resize with cols = 0 or rows = 0 return InvalidSize
\* before any OS call: nothing is created, no pseudo-console resize is issued,
\* and an existing session is left as it was.
C21_InvalidSizeNoOsCall ==
    (pty.op \in {"spawn", "resize"} /\ (pty.arg.cols = 0 \/ pty.arg.rows = 0)) =>
        /\ ~pty.ok
        /\ pty.err = "InvalidSize"
        /\ CallsMade = <<>>
        /\ os = pty.before
        /\ pty.op = "resize" => pty.state = "active"
        /\ pty.op = "spawn" => (pty.state = "none" /\ os.open = {})

\* a resize to 2 columns by 0 rows was refused on a session that an earlier
\* resize had succeeded on
C21_Witness ==
    /\ pty.op = "resize"
    /\ pty.arg = [cols |-> 2, rows |-> 0]
    /\ pty.resizes = 2
    /\ os.console = [cols |-> 1, rows |-> 2]

\* C22: when spawn fails at an OS step after the first pipe was created, every
\* handle acquired earlier in the attempt has been closed when the error is
\* returned: no handle remains open.
C22_NoLeakOnFailure ==
    (pty.op = "spawn" /\ ~pty.ok /\ pty.err /= "InvalidSize") => os.open = {}

\* C23: dropping the session after a successful spawn closes each of the seven
\* handles it owns exactly once, and on no path, success or failure at any
\* step, is a handle closed more than once.
C23_ClosedExactlyOnce ==
    /\ \A h \in Handles : os.closes[h] <= 1
    /\ pty.state = "dropped" =>
          /\ \A h \in Handles : os.closes[h] = 1
          /\ os.open = {}

\* a session dropped after it was resized
C23_Witness ==
    /\ pty.state = "dropped"
    /\ pty.resizes > 0
    /\ Len(CallsMade) = Cardinality(Handles)

\* the position in the log of the call that closed handle h (0: never closed)
ClosedAt(h) ==
    LET at == {i \in 1..Len(os.calls) :
                  os.calls[i][1] \in {"CloseHandle", "ClosePseudoConsole"}
                  /\ os.calls[i][2] = h}
    IN  IF at = {} THEN 0 ELSE CHOOSE i \in at : \A j \in at : i <= j

\* C24: in teardown the pseudo-console is closed before the process handle and
\* before the thread handle.
C24_ConsoleBeforeProcess ==
    pty.state = "dropped" =>
        /\ ClosedAt("hpc") > 0
        /\ ClosedAt("hpc") < ClosedAt("process")
        /\ ClosedAt("hpc") < ClosedAt("thread")

\* a session spawned at 2 columns by 1 row was dropped
C24_Witness ==
    /\ pty.state = "dropped"
    /\ pty.op = "drop"
    /\ pty.resizes = 0
    /\ os.console = [cols |-> 2, rows |-> 1]

\* C25 (as stated): teardown releases the resources in the reverse of the order
\* of acquisition (input pipe, output pipe, pseudo-console, process, thread):
\* the thread handle first, then the process handle, the pseudo-console, the
\* output pipe ends and the input pipe ends.
C25_ReverseOrder ==
    pty.state = "dropped" =>
        /\ ClosedAt("thread") < ClosedAt("process")
        /\ ClosedAt("process") < ClosedAt("hpc")
        /\ \A o \in {"output_read", "output_write"} :
              /\ ClosedAt("hpc") < ClosedAt(o)
              /\ \A i \in {"input_read", "input_write"} : ClosedAt(o) < ClosedAt(i)

\* C25 (amended): teardown closes the pseudo-console first, then the two pipe
\* ends that were given to it (input read end, output write end), then the
\* process handle, then the thread handle, and last the session's own pipe ends
\* (input write end, output read end).
C25_TeardownOrder ==
    pty.state = "dropped" =>
        CallsMade = <<<<"ClosePseudoConsole", "hpc">>,
                      <<"CloseHandle", "input_read">>,
                      <<"CloseHandle", "output_write">>,
                      <<"CloseHandle", "process">>,
                      <<"CloseHandle", "thread">>,
                      <<"CloseHandle", "input_write">>,
                      <<"CloseHandle", "output_read">>>>

\* a session was dropped after a resize that the OS refused
C25_Witness ==
    /\ pty.state = "dropped"
    /\ pty.resizes = 1
    /\ \E i \in 1..Len(os.calls) : os.calls[i][1] = "ResizePseudoConsole"
    /\ os.console = [cols |-> 1, rows |-> 1]

\* C26: the liveness check declares the session closed only when the two most
\* recent probes both reported "not running"
C26_TwoConsecutiveProbes ==
    hist.closed_by = "liveness" => hist.probes = <<"not_running", "not_running">>

\* C27: a probe that fails with an error leaves the session open and the
\* closed flag as it was
C27_ProbeErrorKeepsOpen ==
    hist.probe = "error" =>
        /\ ~app.pty_closed
        /\ ~app.exited
        /\ pty.state = "active"

\* two probe errors in a row have been seen on a session that is still open
C27_Witness ==
    /\ hist.probe = "error"
    /\ hist.probes = <<"error", "error">>
    /\ ~app.pty_closed

\* C28: the reader sends Closed after end-of-stream and after a read error, at
\* most one Closed in all, nothing after a Closed or after a failed send, and
\* then it has terminated
C28_ReaderProtocol ==
    LET sends == hist.sends
        n == Len(sends)
    IN  /\ \A i \in 1..n :
               /\ sends[i].after \in {"eof", "error"} => sends[i].msg = "Closed"
               /\ sends[i].after = "data" => sends[i].msg = "Data"
               /\ i < n => (sends[i].msg = "Data" /\ sends[i].ok)
        /\ Cardinality({i \in 1..n : sends[i].msg = "Closed"}) <= 1
        /\ (n > 0 /\ (sends[n].msg = "Closed" \/ ~sends[n].ok)) => chan.reader = "done"
        /\ chan.reader = "done" => (n > 0 /\ (sends[n].msg = "Closed" \/ ~sends[n].ok))

\* the reader forwarded a chunk, then a read failed and it sent Closed and ended
C28_Witness ==
    LET n == Len(hist.sends)
    IN  /\ n >= 2
        /\ hist.sends[1].msg = "Data"
        /\ hist.sends[n].msg = "Closed"
        /\ hist.sends[n].after = "error"
        /\ hist.sends[n].ok
        /\ chan.reader = "done"

\* the chunks of a sequence joined into one byte stream
RECURSIVE Concat(_)
Concat(chunks) ==
    IF chunks = <<>> THEN <<>> ELSE Head(chunks) \o Concat(Tail(chunks))

\* C29: the chunks drained are the first chunks read, in the order read; the
\* Screen of a session whose grid was not resized is the Screen start_pty left
\* with the decoding of the drained bytes applied; when Closed is processed
\* every chunk read has been drained
C29_ChunksInOrder ==
    /\ Len(hist.drained) <= Len(hist.read)
    /\ hist.drained = SubSeq(hist.read, 1, Len(hist.drained))
    /\ (pty.state \in {"active", "dropped"} /\ ~hist.resized) =>
           screen = apply_events(hist.screen0, advance(Concat(hist.drained), <<>>))
    /\ hist.closed_seen => hist.drained = hist.read

\* all the child's output arrived in more than one chunk, it scrolled a row
\* off the grid, and Closed was processed after it
C29_Witness ==
    /\ Len(hist.drained) >= 2
    /\ Concat(hist.drained) = <<65, 10, 66>>
    /\ hist.closed_seen
    /\ ~hist.resized
    /\ screen.scrollback /= <<>>

C31_SameSizeResizeIsNoOp ==
    [][hist'.resize = "same"
         => /\ screen' = screen
            /\ os' = os
            /\ pty' = pty]_vars

\* a session is held, rows have scrolled off the grid, and the window was
\* resized to the size the grid has
C31_Witness ==
    /\ hist.resize = "same"
    /\ pty.state = "active"
    /\ screen.scrollback /= <<>>

\* C33: every liveness probe is made at least 500 ms after the probe before it
\* of the same session, or after the session's start for the first one; a call
\* of check_pty_status made earlier makes no probe and changes nothing.
C33_ProbesArePaced ==
    /\ hist.probe \in Probes => hist.gap >= STATUS_INTERVAL_MS
    /\ ~hist.skip_changed

\* two probes of a session were made, and then a check before the interval
\* had passed again
C33_Witness ==
    /\ hist.probe = "early"
    /\ Len(hist.probes) = 2
    /\ hist.gap >= STATUS_INTERVAL_MS
    /\ pty.state = "active"
    /\ ~app.pty_closed

\* C35: when the interactive loop has exited, every chunk the reader thread
\* enqueued has been decoded and applied to the Screen, however the reader, the
\* liveness check and the loop interleave.
C35_AllChunksDrainedAtExit ==
    app.exited /\ hist.closed_by = "liveness" => hist.drained = hist.read

\* C38: for every i32 delta, scroll_view leaves the scroll offset at
\* clamp(offset + delta, 0, Scrollback length), the sum taken in unbounded
\* integers: a positive delta never lowers the offset, a negative one never
\* raises it, also where offset + delta is outside the i32 range.
C38_ScrollViewClamps ==
    [][last'.op = "scroll_view" =>
        LET delta == last'.arg
            k == screen.scroll_offset
            L == Len(screen.scrollback)
            expected == IF delta >= 0
                        THEN (IF delta >= L - k THEN L ELSE k + delta)
                        ELSE (IF delta <= -k THEN 0 ELSE k + delta)
        IN  /\ ~panicked'
            /\ screen'.scroll_offset = expected
            /\ delta > 0 => screen'.scroll_offset >= k
            /\ delta < 0 => screen'.scroll_offset <= k
    ]_vars

\* C36: in any run start_pty is called at most once, whatever the answers to
\* the font prompt and the results of the downloads, and never while a session
\* is held.
C36_StartsAtMostOnce ==
    /\ hist.starts <= 1
    /\ ~hist.started_held
    /\ pty.state = "active" => hist.starts = 1

\* a download was begun, the session started after it, and 'n' was typed into
\* the session
C36_Witness ==
    /\ hist.starts = 1
    /\ hist.downloads >= 1
    /\ pty.state = "active"
    /\ app.input_buffer /= <<>>

\* C32: once the session is marked closed (by a Closed message, by the liveness
\* check or by the user's exit line), pty_closed stays true, and the first
\* AboutToWait that finds it closed exits the loop.
C32_ClosedThenExit ==
    [][/\ app.pty_closed => app'.pty_closed
       /\ ~hist'.missed_exit]_vars

\* the user's exit line closed the session, and the loop has exited
C32_Witness ==
    /\ app.pty_closed
    /\ app.exited
    /\ hist.closed_by = "user"
    /\ pty.state = "dropped"

\* C34: once pty_closed is true no input path writes bytes to the child's
\* input: not text, not a named key, not a Ctrl+letter control code.
C34_NoInputAfterClosed ==
    hist.input.wrote => ~hist.input.closed

\* C37: every call of send_input_bytes leaves the scroll offset at 0, with or
\* without a writer and whether or not the write succeeds, and leaves the grid
\* cells, the cursor and the scrollback as they were.
C37_InputScrollsToBottom ==
    [][hist'.input.sent =>
         /\ screen'.scroll_offset = 0
         /\ screen'.cells = screen.cells
         /\ screen'.cursor = screen.cursor
         /\ screen'.scrollback = screen.scrollback
         /\ screen'.size = screen.size]_vars

\* bytes were forwarded while the view was scrolled up and no writer was held
C37_Witness ==
    /\ hist.input.sent
    /\ hist.input.view > 0
    /\ ~app.pty_writer
    /\ screen.scroll_offset = 0

\* a line that is "exit" in any letter case between any white space
ReadsExit(line) ==
    \E i \in 0..Len(line) :
        /\ Len(line) >= i + 4
        /\ \A k \in 1..i : line[k] \in {9, 10, 11, 12, 13, 32, 133, 160}
        /\ line[i + 1] \in {101, 69}
        /\ line[i + 2] \in {120, 88}
        /\ line[i + 3] \in {105, 73}
        /\ line[i + 4] \in {116, 84}
        /\ \A k \in (i + 5)..Len(line) :
              line[k] \in {9, 10, 11, 12, 13, 32, 133, 160}

\* C39: Enter pressed while a session is open marks it closed and requests exit
\* exactly when the tracked input line, trimmed of white space, is "exit" in
\* any letter case; either way the tracked line is cleared. Typed characters
\* that are not control characters are added to the line. Backspace is
\* forwarded only when the line is not empty, and takes its last character.
C39_ExitLine ==
    [][LET open == pty.state = "active" /\ ~app.pty_closed /\ ~app.font_prompt
           line == app.input_buffer
       IN  /\ (hist'.input.key = "Enter" /\ open) =>
                 /\ app'.pty_closed <=> ReadsExit(line)
                 /\ app'.exit_requested <=> ReadsExit(line)
                 /\ app'.input_buffer = <<>>
                 /\ app'.input_len = 0
           /\ (hist'.input.key = "Text" /\ open) =>
                 /\ app'.input_buffer = line \o hist'.input.bytes
                 /\ \A k \in 1..Len(hist'.input.bytes) :
                       hist'.input.bytes[k] >= 32
           /\ hist'.input.key = "Backspace" =>
                 /\ hist'.input.sent => line /= <<>>
                 /\ (open /\ line /= <<>>) =>
                       /\ hist'.input.sent
                       /\ app'.input_buffer = SubSeq(line, 1, Len(line) - 1)
                 /\ ~hist'.input.sent => app'.input_buffer = line
    ]_vars

\* Enter was pressed on a line that reads " Exit": the session is marked
\* closed, exit is requested and the line is cleared
C39_Witness ==
    /\ hist.input.key = "Enter"
    /\ ~hist.input.closed
    /\ app.pty_closed
    /\ app.exit_requested
    /\ hist.closed_by = "user"
    /\ app.input_buffer = <<>>

\* C40: for every window size the grid screen_size_from_pixels gives has at
\* least one column and one row, and is max(1, (width - 24) / 10) columns by
\* max(1, (height - 24) / 20) rows, the subtraction stopping at 0: narrowing
\* the counts to u16 loses nothing.
C40_GridFromPixels ==
    hist.sized =>
        /\ hist.grid.cols >= 1
        /\ hist.grid.rows >= 1
        /\ hist.grid.cols = Max(1, Max(hist.px.width - 24, 0) \div 10)
        /\ hist.grid.rows = Max(1, Max(hist.px.height - 24, 0) \div 20)

====
